---- MODULE Spec2Model ----
(***************************************************************************)
(* PTTracker (latest variant, src/unnamed/part_002): tag parsing, fallback *)
(* resolution, the settings object, the per-message cache, the message     *)
(* headers and the injected prompt, driven by the host's lifecycle events. *)
(*                                                                         *)
(* A JavaScript string is a sequence of one-character strings; null and    *)
(* undefined are the values Null and Undefined.                            *)
(***************************************************************************)
EXTENDS Integers, Sequences, FiniteSets, TLC

VARIABLES settings, persisted, perMessageTracker, headers, prompt,
          recentMessages, character, pending, headerButtons, steps, last,
          generating, buttons

vars == <<settings, persisted, perMessageTracker, headers, prompt,
          recentMessages, character, pending, headerButtons, steps, last,
          generating, buttons>>

\* null and undefined, as sequences no string equals.
Null == <<"null">>
Undefined == <<"undefined">>

(***************************************************************************)
(* Bounds of the model.                                                    *)
(***************************************************************************)
\* Longest history that still grows by arrival or changes by edit (a saved
\* chat may be longer).
MaxMsgs == 2
\* Edit dialogs and Regenerate requests that may be awaiting their completion.
MaxPending == 1
\* Events delivered to the extension in one run.
MaxSteps == 3

(***************************************************************************)
(* String primitives (String.prototype.trim, toLowerCase, indexOf, split,  *)
(* parseInt, Number -> String).                                            *)
(***************************************************************************)
IsSpace(c) == c \in {" ", "\n", "\t"}

IsDigit(c) == c \in {"0", "1", "2", "3", "4", "5", "6", "7", "8", "9"}

DigitChar(d) == <<"0", "1", "2", "3", "4", "5", "6", "7", "8", "9">>[d + 1]

\* The lower-case letter of each upper-case letter.
LowerOf ==
    "A" :> "a" @@ "B" :> "b" @@ "C" :> "c" @@ "D" :> "d" @@ "E" :> "e" @@
    "F" :> "f" @@ "G" :> "g" @@ "H" :> "h" @@ "I" :> "i" @@ "J" :> "j" @@
    "K" :> "k" @@ "L" :> "l" @@ "M" :> "m" @@ "N" :> "n" @@ "O" :> "o" @@
    "P" :> "p" @@ "Q" :> "q" @@ "R" :> "r" @@ "S" :> "s" @@ "T" :> "t" @@
    "U" :> "u" @@ "V" :> "v" @@ "W" :> "w" @@ "X" :> "x" @@ "Y" :> "y" @@
    "Z" :> "z"

LowerChar(c) == IF c \in DOMAIN LowerOf THEN LowerOf[c] ELSE c

toLowerCase(s) == [i \in 1..Len(s) |-> LowerChar(s[i])]

\* s.slice(from0) and s.slice(from0, to0) with 0-based offsets.
Slice(s, from0, to0) == SubSeq(s, from0 + 1, to0)

trim(s) ==
    IF \A i \in 1..Len(s) : IsSpace(s[i]) THEN <<>>
    ELSE LET a == CHOOSE i \in 1..Len(s) :
                      ~IsSpace(s[i]) /\ \A j \in 1..(i - 1) : IsSpace(s[j])
             b == CHOOSE i \in 1..Len(s) :
                      ~IsSpace(s[i]) /\ \A j \in (i + 1)..Len(s) : IsSpace(s[j])
         IN  SubSeq(s, a, b)

\* s.indexOf(c): 0-based offset of the first c, or -1.
indexOf(s, c) ==
    IF \E i \in 1..Len(s) : s[i] = c
    THEN (CHOOSE i \in 1..Len(s) : s[i] = c /\ \A j \in 1..(i - 1) : s[j] # c) - 1
    ELSE -1

\* s.split(c): the pieces between the occurrences of c (always at least one).
RECURSIVE split(_, _)
split(s, c) ==
    LET k == indexOf(s, c)
    IN  IF k = -1 THEN <<s>>
        ELSE <<Slice(s, 0, k)>> \o split(Slice(s, k + 1, Len(s)), c)

\* pieces.join(sep)
RECURSIVE join(_, _)
join(pieces, sep) ==
    IF Len(pieces) = 0 THEN <<>>
    ELSE IF Len(pieces) = 1 THEN pieces[1]
    ELSE pieces[1] \o sep \o join(Tail(pieces), sep)

\* The value of a run of decimal digits.
RECURSIVE DigitsVal(_)
DigitsVal(ds) ==
    IF Len(ds) = 0 THEN 0
    ELSE 10 * DigitsVal(SubSeq(ds, 1, Len(ds) - 1))
             + (CHOOSE d \in 0..9 : DigitChar(d) = ds[Len(ds)])

\* The longest prefix of s made of digits.
RECURSIVE DigitPrefix(_)
DigitPrefix(s) ==
    IF Len(s) > 0 /\ IsDigit(s[1]) THEN <<s[1]>> \o DigitPrefix(Tail(s)) ELSE <<>>

\* The longest prefix of s made of white space.
RECURSIVE SpacePrefix(_)
SpacePrefix(s) ==
    IF Len(s) > 0 /\ IsSpace(s[1]) THEN <<s[1]>> \o SpacePrefix(Tail(s)) ELSE <<>>

\* parseInt(s, 10): leading white space, an optional sign, then the digits up
\* to the first non-digit; NaN (nan = TRUE) when there is no digit.
ParseIntSigned(t) ==
    IF Len(DigitPrefix(IF Len(t) > 0 /\ t[1] \in {"-", "+"} THEN Tail(t) ELSE t)) = 0
    THEN [nan |-> TRUE, val |-> 0]
    ELSE [nan |-> FALSE,
          val |-> IF Len(t) > 0 /\ t[1] = "-"
                  THEN 0 - DigitsVal(DigitPrefix(Tail(t)))
                  ELSE DigitsVal(DigitPrefix(IF Len(t) > 0 /\ t[1] = "+"
                                             THEN Tail(t) ELSE t))]

parseInt(s) == ParseIntSigned(Slice(s, Len(SpacePrefix(s)), Len(s)))

isNaN(p) == p.nan

\* String(n) for an integer n.
RECURSIVE NatToStr(_)
NatToStr(n) ==
    IF n < 10 THEN <<DigitChar(n)>>
    ELSE NatToStr(n \div 10) \o <<DigitChar(n % 10)>>

IntToStr(n) == IF n < 0 THEN <<"-">> \o NatToStr(0 - n) ELSE NatToStr(n)

Max(a, b) == IF a >= b THEN a ELSE b

\* Whether pat (lower case) is at 1-based position i of s, case ignored.
MatchesAt(s, i, pat) ==
    /\ i + Len(pat) - 1 <= Len(s)
    /\ \A k \in 1..Len(pat) : LowerChar(s[i + k - 1]) = pat[k]

(***************************************************************************)
(* String literals of the source.                                          *)
(***************************************************************************)
\* The tag names of the patterns and the keys of a character entry.
Key ==
    [ time |-> <<"t", "i", "m", "e">>,
      location |-> <<"l", "o", "c", "a", "t", "i", "o", "n">>,
      weather |-> <<"w", "e", "a", "t", "h", "e", "r">>,
      heart |-> <<"h", "e", "a", "r", "t">>,
      char |-> <<"c", "h", "a", "r">>,
      outfit |-> <<"o", "u", "t", "f", "i", "t">>,
      state |-> <<"s", "t", "a", "t", "e">>,
      position |-> <<"p", "o", "s", "i", "t", "i", "o", "n">> ]
Placeholder ==
    [Unknown |-> <<"U", "n", "k", "n", "o", "w", "n">>,
     unknown |-> <<"u", "n", "k", "n", "o", "w", "n">>]

(***************************************************************************)
(* Time helpers                                                            *)
(***************************************************************************)

\* (\s*;.*)?$ on what follows the minutes (and the optional seconds).
TimeMatchRest(hd, a, c) ==
    IF \/ Len(c) = 0
       \/ /\ Len(c) > Len(SpacePrefix(c))
          /\ c[Len(SpacePrefix(c)) + 1] = ";"
          /\ \A i \in 1..Len(c) : i > Len(SpacePrefix(c)) => c[i] # "\n"
    THEN [ok |-> TRUE, h |-> hd, m |-> <<a[2], a[3]>>, rest |-> c]
    ELSE [ok |-> FALSE, h |-> <<>>, m |-> <<>>, rest |-> <<>>]

\* hd are the leading digits and a is what follows them.
TimeMatchHours(hd, a) ==
    IF Len(hd) \in {1, 2} /\ Len(a) >= 3 /\ a[1] = ":"
           /\ IsDigit(a[2]) /\ IsDigit(a[3])
    THEN TimeMatchRest(hd, a,
             \* (?::\d{2})? on what follows the minutes
             IF Len(a) >= 6 /\ a[4] = ":" /\ IsDigit(a[5]) /\ IsDigit(a[6])
             THEN Slice(a, 6, Len(a)) ELSE Slice(a, 3, Len(a)))
    ELSE [ok |-> FALSE, h |-> <<>>, m |-> <<>>, rest |-> <<>>]

\* timeStr.match(/^(\d{1,2}):(\d{2})(?::\d{2})?(\s*;.*)?$/): the groups
\* [h, m, rest], or no match (ok = FALSE).
TimeMatch(s) ==
    TimeMatchHours(DigitPrefix(s), Slice(s, Len(DigitPrefix(s)), Len(s)))

\* A conversion that takes noon for a morning hour.
TimeIn12Hour_NoonAM(timeStr, match, hours) ==
    IF hours < 0 \/ hours > 23 THEN timeStr
    ELSE NatToStr(IF hours % 12 = 0 THEN 12 ELSE hours % 12) \o <<":">>
             \o match.m \o <<" ">>
             \o (IF hours > 12 THEN <<"P", "M">> ELSE <<"A", "M">>)
             \o match.rest

\* The result for a matched time whose hour is hours.
TimeIn12Hour(timeStr, match, hours) ==
    IF hours < 0 \/ hours > 23 THEN timeStr
    ELSE NatToStr(IF hours % 12 = 0 THEN 12 ELSE hours % 12) \o <<":">>
             \o match.m \o <<" ">>
             \o (IF hours >= 12 THEN <<"P", "M">> ELSE <<"A", "M">>)
             \o match.rest

TimeOfMatch(timeStr, match) ==
    IF ~match.ok THEN timeStr
    ELSE TimeIn12Hour(timeStr, match, DigitsVal(match.h))

\* A conversion without the test for AM and PM.
convertTo12Hour_NoTest(timeStr) ==
    IF Len(timeStr) = 0 THEN timeStr
    ELSE TimeOfMatch(timeStr, TimeMatch(timeStr))

convertTo12Hour(timeStr) ==
    IF Len(timeStr) = 0 THEN timeStr
    ELSE IF \E i \in 1..Len(timeStr) :         \* /AM|PM/i.test(timeStr)
                \/ MatchesAt(timeStr, i, <<"a", "m">>)
                \/ MatchesAt(timeStr, i, <<"p", "m">>)
         THEN timeStr
    ELSE TimeOfMatch(timeStr, TimeMatch(timeStr))

(***************************************************************************)
(* Heart Meter helpers                                                     *)
(***************************************************************************)
\* Thresholds that belong to the tier below.
getHeartEmoji_Inclusive(points) ==
    IF points <= 5000 THEN "black"
    ELSE IF points <= 20000 THEN "purple"
    ELSE IF points <= 30000 THEN "blue"
    ELSE IF points <= 40000 THEN "green"
    ELSE IF points <= 50000 THEN "yellow"
    ELSE IF points <= 60000 THEN "orange"
    ELSE "red"

getHeartEmoji(points) ==
    IF points < 5000 THEN "black"
    ELSE IF points < 20000 THEN "purple"
    ELSE IF points < 30000 THEN "blue"
    ELSE IF points < 40000 THEN "green"
    ELSE IF points < 50000 THEN "yellow"
    ELSE IF points < 60000 THEN "orange"
    ELSE "red"

(***************************************************************************)
(* Tag parsing                                                             *)
(***************************************************************************)
\* One attempt of /\[key:\s*([^\]]+)\]/i at 1-based position i of text:
\* [cap |-> the captured group, next |-> the position after the match], or
\* NoTag. \s* is greedy and gives one character back when the whole body is
\* white space, since [^\]]+ needs at least one character.
NoTag == [cap |-> Null, next |-> 0]

\* The captured group of a tag whose body (between ':' and ']') is body.
TagCap(body, w) ==
    Slice(body, IF w = Len(body) THEN w - 1 ELSE w, Len(body))

\* rest is the text after "[key:", which ends before position at; e is the
\* offset of the first ']' in rest.
TagClose(rest, at, e) ==
    IF e < 1 THEN NoTag
    ELSE [cap  |-> TagCap(Slice(rest, 0, e), Len(SpacePrefix(Slice(rest, 0, e)))),
          next |-> at + e + 1]

TagMatchAt(text, i, key) ==
    IF ~MatchesAt(text, i, <<"[">> \o key \o <<":">>) THEN NoTag
    ELSE TagClose(SubSeq(text, i + Len(key) + 2, Len(text)), i + Len(key) + 2,
                  indexOf(SubSeq(text, i + Len(key) + 2, Len(text)), "]"))

\* The match at the least of the positions hits.
TagFirst(text, hits, key) ==
    IF hits = {} THEN NoTag
    ELSE TagMatchAt(text, CHOOSE i \in hits : \A j \in hits : i <= j, key)

\* The leftmost match at or after position from.
TagExec(text, from, key) ==
    TagFirst(text, {i \in from..Len(text) : TagMatchAt(text, i, key) # NoTag}, key)

\* A captured group that is returned with its blanks.
TagValue_NoTrim(match) == IF match = NoTag THEN Null ELSE match.cap

TagValue(match) == IF match = NoTag THEN Null ELSE trim(match.cap)

\* extract(pattern) of parseTags
extract(text, key) == TagValue(TagExec(text, 1, key))

EmptyChar == [name |-> <<>>, outfit |-> <<>>, state |-> <<>>, position |-> <<>>]

\* The body of the for loop over the '|' parts of one [char: ...] tag.
CharKeyed(charObj, part, i, k, v) ==
    IF k = <<"n", "a", "m", "e">> THEN [charObj EXCEPT !.name = v]
    ELSE IF k = Key.outfit THEN [charObj EXCEPT !.outfit = v]
    ELSE IF k = Key.state THEN [charObj EXCEPT !.state = v]
    ELSE IF k = Key.position THEN [charObj EXCEPT !.position = v]
    ELSE IF i = 0 /\ charObj.name = <<>>
         THEN [charObj EXCEPT !.name = part] ELSE charObj

CharSplit(charObj, part, i, sep) ==
    IF sep = -1
    THEN IF i = 0 /\ charObj.name = <<>>
         THEN [charObj EXCEPT !.name = part] ELSE charObj
    ELSE CharKeyed(charObj, part, i, toLowerCase(trim(Slice(part, 0, sep))),
                   trim(Slice(part, sep + 1, Len(part))))

RECURSIVE CharParts(_, _, _)
CharParts(charObj, parts, i) ==
    IF i >= Len(parts) THEN charObj
    ELSE CharParts(CharSplit(charObj, parts[i + 1], i,
                             indexOf(parts[i + 1], ":")),
                   parts, i + 1)

\* One [char: ...] body to a character object (its name may be empty).
ParseCharLine(charLine) ==
    CharParts(EmptyChar,
              [n \in 1..Len(split(charLine, "|")) |-> trim(split(charLine, "|")[n])], 0)

\* A loop that keeps the entries without a name.
PushNamed_All(charObj) == <<charObj>>

\* if (charObj.name) characters.push(charObj)
PushNamed(charObj) == IF charObj.name # <<>> THEN <<charObj>> ELSE <<>>

\* The while loop over charRegex.exec(text).
RECURSIVE CollectChars(_, _)
CollectMatch(text, charMatch) ==
    IF charMatch = NoTag THEN <<>>
    ELSE PushNamed(ParseCharLine(trim(charMatch.cap)))
             \o CollectChars(text, charMatch.next)

CollectChars(text, from) == CollectMatch(text, TagExec(text, from, Key.char))

parseTags(text) ==
    [time       |-> extract(text, Key.time),
     location   |-> extract(text, Key.location),
     weather    |-> extract(text, Key.weather),
     heart      |-> extract(text, Key.heart),
     characters |-> CollectChars(text, 1)]

hasTags(tags) ==
    \/ tags.time # Null \/ tags.location # Null
    \/ tags.weather # Null \/ tags.heart # Null
    \/ Len(tags.characters) > 0

(***************************************************************************)
(* The texts the host delivers: message texts, Regenerate responses, the   *)
(* strings typed into the Edit dialog and character descriptions.          *)
(***************************************************************************)
\* The message texts, by name.
Text ==
    [ \* "[time: 14:05][heart: 80000]"
      TimeHeart |-> <<"[", "t", "i", "m", "e", ":", " ", "1", "4", ":", "0",
          "5", "]", "[", "h", "e", "a", "r", "t", ":", " ", "8", "0", "0",
          "0", "0", "]">>,
      \* "[location: Docks][char: Alice][char: Bob | state: shy]"
      LocChars |-> <<"[", "l", "o", "c", "a", "t", "i", "o", "n", ":", " ",
          "D", "o", "c", "k", "s", "]", "[", "c", "h", "a", "r", ":", " ", "A",
          "l", "i", "c", "e", "]", "[", "c", "h", "a", "r", ":", " ", "B",
          "o", "b", " ", "|", " ", "s", "t", "a", "t", "e", ":", " ", "s",
          "h", "y", "]">>,
      \* "Hi"
      Hi |-> <<"H", "i">>,
      \* "[location: ][weather: Rain][heart: -50]"
      BlankRainNeg |-> <<"[", "l", "o", "c", "a", "t", "i", "o", "n", ":",
          " ", "]", "[", "w", "e", "a", "t", "h", "e", "r", ":", " ", "R", "a", "i",
          "n", "]", "[", "h", "e", "a", "r", "t", ":", " ", "-", "5", "0",
          "]">>,
      \* "[char: Carol][heart: abc]"
      CarolNaN |-> <<"[", "c", "h", "a", "r", ":", " ", "C", "a", "r", "o",
          "l", "]", "[", "h", "e", "a", "r", "t", ":", " ", "a", "b", "c", "]">>,
      \* "[weather: Fog]"
      Fog |-> <<"[", "w", "e", "a", "t", "h", "e", "r", ":", " ", "F", "o", "g",
          "]">> ]
\* The responses of the hidden generation, by name.
Response ==
    [ \* "[time: 21:15][heart: 300]"
      Time |-> <<"[", "t", "i", "m", "e", ":", " ", "2", "1", ":", "1", "5",
          "]", "[", "h", "e", "a", "r", "t", ":", " ", "3", "0", "0", "]">>,
      \* "Sorry"
      None |-> <<"S", "o", "r", "r", "y">>,
      \* "[heart: abc]"
      NaN |-> <<"[", "h", "e", "a", "r", "t", ":", " ", "a", "b", "c", "]">> ]
\* The strings typed into the Edit dialog, by name.
Typed ==
    [ \* "-5"
      Neg |-> <<"-", "5">>,
      \* "21:15"
      Time |-> <<"2", "1", ":", "1", "5">>,
      \* "Carol | state: calm"
      Carol |-> <<"C", "a", "r", "o", "l", " ", "|", " ", "s", "t", "a", "t",
          "e", ":", " ", "c", "a", "l", "m">> ]

\* Texts of AI messages, as they arrive and as they are edited to.
AiTexts == {Text.TimeHeart, Text.LocChars, Text.Hi, Text.BlankRainNeg, Text.CarolNaN}
\* Texts of the user's messages.
UserTexts == {Text.Hi, Text.Fog}
\* Responses to the hidden Regenerate request ('' is no response text).
RegenResponses ==
    {<<>>, Response.None, Response.Time, Response.NaN, Text.CarolNaN}

\* parseTags of the texts above, computed once; Tags(text) is parseTags(text).
TagsOfKnownTexts == [t \in AiTexts \cup UserTexts \cup RegenResponses |-> parseTags(t)]

Tags(text) == TagsOfKnownTexts[text]

\* The tags object the Edit and Regenerate completions hand to buildHeader.
NoTags ==
    [time |-> Null, location |-> Null, weather |-> Null, heart |-> Null,
     characters |-> <<>>]

(***************************************************************************)
(* JavaScript's x || y on strings: null, undefined and '' are falsy.       *)
(***************************************************************************)
OrElse(x, y) == IF x \notin {Null, Undefined, <<>>} THEN x ELSE y

\* f with key k set to v (an object used as a map from message index).
Put(f, k, v) == [x \in DOMAIN f \cup {k} |-> IF x = k THEN v ELSE f[x]]

EmptyMap == [x \in {} |-> 0]

(***************************************************************************)
(* Characters helpers                                                      *)
(***************************************************************************)
\* A form that drops outfit, state and position.
CharFields_NameOnly(c) == c.name

\* The "Name | outfit: X | state: Y | position: Z" form of one character.
CharFields(c) ==
    join(<<c.name>>
           \o (IF c.outfit # <<>> THEN <<Key.outfit \o <<":", " ">> \o c.outfit>> ELSE <<>>)
           \o (IF c.state # <<>> THEN <<Key.state \o <<":", " ">> \o c.state>> ELSE <<>>)
           \o (IF c.position # <<>>
               THEN <<Key.position \o <<":", " ">> \o c.position>> ELSE <<>>),
         <<" ", "|", " ">>)

charsToString(chars) ==
    IF Len(chars) = 0 THEN <<>>
    ELSE join([n \in 1..Len(chars) |-> CharFields(chars[n])], <<";", " ">>)

\* The body of the for loop over the '|' parts of one ';' entry.
StringCharPart(charObj, part, i, sep) ==
    IF sep = -1
    THEN IF i = 0 THEN [charObj EXCEPT !.name = part] ELSE charObj
    ELSE CharKeyed(charObj, part, i, toLowerCase(trim(Slice(part, 0, sep))),
                   trim(Slice(part, sep + 1, Len(part))))

RECURSIVE StringCharParts(_, _, _)
StringCharParts(charObj, parts, i) ==
    IF i >= Len(parts) THEN charObj
    ELSE StringCharParts(StringCharPart(charObj, parts[i + 1], i,
                                        indexOf(parts[i + 1], ":")),
                         parts, i + 1)

StringEntry(entry) ==
    IF entry = <<>> THEN EmptyChar
    ELSE StringCharParts(EmptyChar,
             [n \in 1..Len(split(entry, "|")) |-> trim(split(entry, "|")[n])], 0)

RECURSIVE KeepNamed(_)
KeepNamed(cs) ==
    IF Len(cs) = 0 THEN <<>>
    ELSE (IF cs[1].name # <<>> THEN <<cs[1]>> ELSE <<>>) \o KeepNamed(Tail(cs))

stringToChars(str) ==
    IF str = <<>> \/ trim(str) = <<>> THEN <<>>
    ELSE KeepNamed([n \in 1..Len(split(str, ";")) |->
                       StringEntry(trim(split(str, ";")[n]))])

(***************************************************************************)
(* Header builder                                                          *)
(***************************************************************************)
\* The emoji-and-label prefixes of the header lines, one token each.
Label ==
    [ Time |-> "Time: ",
      Location |-> "Location: ",
      Weather |-> "Weather: ",
      Characters |-> "Characters: " ]

\* Number.prototype.toLocaleString: the digits grouped by three.
RECURSIVE GroupDigits(_)
GroupDigits(ds) ==
    IF Len(ds) <= 3 THEN ds
    ELSE GroupDigits(SubSeq(ds, 1, Len(ds) - 3)) \o <<",">>
             \o SubSeq(ds, Len(ds) - 2, Len(ds))

toLocaleString(n) ==
    IF n < 0 THEN <<"-">> \o GroupDigits(NatToStr(0 - n)) ELSE GroupDigits(NatToStr(n))

CharDetails(c) ==
    (IF c.outfit # <<>> THEN <<c.outfit>> ELSE <<>>)
      \o (IF c.state # <<>> THEN <<c.state>> ELSE <<>>)
      \o (IF c.position # <<>> THEN <<c.position>> ELSE <<>>)

\* The characters block of the header.
CharacterLines(chars) ==
    <<<<>>,
      <<Label.Characters>> \o join([n \in 1..Len(chars) |-> chars[n].name], <<",", " ">>)>>
        \o [n \in 1..Len(chars) |->
               chars[n].name \o (IF Len(CharDetails(chars[n])) > 0
                                 THEN <<" ", "--", " ">>
                                        \o join(CharDetails(chars[n]), <<" ", "|", " ">>)
                                 ELSE <<>>)]

\* A header that keeps an empty line in the place of a disabled field.
HeaderLines_Blank(s, timeVal, locVal, weatherVal, pts, chars) ==
    (IF s.showTime THEN <<<<Label.Time>> \o timeVal>> ELSE <<<<>>>>)
      \o (IF s.showLocation THEN <<<<Label.Location>> \o locVal>> ELSE <<<<>>>>)
      \o (IF s.showWeather THEN <<<<Label.Weather>> \o weatherVal>> ELSE <<<<>>>>)
      \o (IF s.showHeartMeter
          THEN <<<<"Heart Meter: ", getHeartEmoji(pts), " ">> \o toLocaleString(pts)>>
          ELSE <<<<>>>>)
      \o (IF s.showCharacters /\ Len(chars) > 0 THEN CharacterLines(chars) ELSE <<>>)

HeaderLines(s, timeVal, locVal, weatherVal, pts, chars) ==
    (IF s.showTime THEN <<<<Label.Time>> \o timeVal>> ELSE <<>>)
      \o (IF s.showLocation THEN <<<<Label.Location>> \o locVal>> ELSE <<>>)
      \o (IF s.showWeather THEN <<<<Label.Weather>> \o weatherVal>> ELSE <<>>)
      \o (IF s.showHeartMeter
          THEN <<<<"Heart Meter: ", getHeartEmoji(pts), " ">> \o toLocaleString(pts)>>
          ELSE <<>>)
      \o (IF s.showCharacters /\ Len(chars) > 0 THEN CharacterLines(chars) ELSE <<>>)

buildHeader(tags, s) ==
    join(HeaderLines(s,
             convertTo12Hour(OrElse(tags.time, OrElse(s.currentTime, Placeholder.Unknown))),
             OrElse(tags.location, OrElse(s.currentLocation, Placeholder.Unknown)),
             OrElse(tags.weather, OrElse(s.currentWeather, Placeholder.Unknown)),
             s.heartPoints,
             IF Len(tags.characters) > 0 THEN tags.characters
             ELSE s.currentCharacters),
         <<"\n">>)

(***************************************************************************)
(* Settings helpers                                                        *)
(***************************************************************************)
DEFAULT_SETTINGS ==
    [enabled |-> TRUE, scanDepth |-> 10, defaultHeartPoints |-> 0,
     heartPoints |-> 0, currentTime |-> <<>>, currentLocation |-> <<>>,
     currentWeather |-> <<>>, currentCharacters |-> <<>>,
     showTime |-> TRUE, showLocation |-> TRUE, showWeather |-> TRUE,
     showHeartMeter |-> TRUE, showCharacters |-> TRUE]

\* A read that sets every key of the defaults to its default.
getSettings_Reset(stored) ==
    [key \in DOMAIN stored \cup DOMAIN DEFAULT_SETTINGS |->
        IF key \in DOMAIN DEFAULT_SETTINGS THEN DEFAULT_SETTINGS[key] ELSE stored[key]]

\* getSettings on the stored object: every key of the defaults that the
\* object does not define is defined, the others are left as they are.
getSettings(stored) ==
    [key \in DOMAIN stored \cup DOMAIN DEFAULT_SETTINGS |->
        IF key \in DOMAIN stored THEN stored[key] ELSE DEFAULT_SETTINGS[key]]

\* The five tracker fields of the settings, as a per-message cache entry.
Snapshot(s) ==
    [currentTime |-> s.currentTime, currentLocation |-> s.currentLocation,
     currentWeather |-> s.currentWeather, heartPoints |-> s.heartPoints,
     currentCharacters |-> s.currentCharacters]

(***************************************************************************)
(* Prompt injection                                                        *)
(***************************************************************************)
\* The fixed text before and after the current-state block, one token each.
PromptText ==
    [head |-> "[PTTracker Instructions] ... Current tracker state (continue from here):\n",
     tail |-> "\n\nUpdate ONLY values that have changed. Never omit any tag. ..."]

TagLine(key, val) == <<"[">> \o key \o <<":", " ">> \o val \o <<"]">>

ScalarLines(s) ==
    join(<<TagLine(Key.time, OrElse(s.currentTime, Placeholder.unknown)),
           TagLine(Key.location, OrElse(s.currentLocation, Placeholder.unknown)),
           TagLine(Key.weather, OrElse(s.currentWeather, Placeholder.unknown)),
           TagLine(Key.heart, IntToStr(s.heartPoints))>>,
         <<"\n">>)

CharLines(chars) ==
    join([n \in 1..Len(chars) |-> TagLine(Key.char, CharFields(chars[n]))], <<"\n">>)

\* The current-state block of buildPrompt.
CurrentState(s) ==
    IF CharLines(s.currentCharacters) # <<>>
    THEN ScalarLines(s) \o <<"\n">> \o CharLines(s.currentCharacters)
    ELSE ScalarLines(s)

buildPrompt(s) == <<PromptText.head>> \o CurrentState(s) \o <<PromptText.tail>>

\* The text handed to PT.setExtensionPrompt.
injectPrompt(s) == IF ~s.enabled THEN <<>> ELSE buildPrompt(s)

(***************************************************************************)
(* The character's [heart_default: N]                                      *)
(***************************************************************************)
\* ctx.character when the host has none.
NoCharacter == [none |-> TRUE]

\* One attempt of /\[heart_default:\s*(\d+)\]/i at position i: the digits,
\* or <<>>.
\* \s*(\d+)\] on rest, the text after "[heart_default:".
HeartDefaultRest(rest) ==
    IF /\ Len(DigitPrefix(Slice(rest, Len(SpacePrefix(rest)), Len(rest)))) > 0
       /\ Len(rest) > Len(SpacePrefix(rest))
                         + Len(DigitPrefix(Slice(rest, Len(SpacePrefix(rest)), Len(rest))))
       /\ rest[Len(SpacePrefix(rest))
                 + Len(DigitPrefix(Slice(rest, Len(SpacePrefix(rest)), Len(rest)))) + 1] = "]"
    THEN DigitPrefix(Slice(rest, Len(SpacePrefix(rest)), Len(rest)))
    ELSE <<>>

HeartDefaultAt(desc, i) ==
    IF MatchesAt(desc, i, <<"[", "h", "e", "a", "r", "t", "_", "d", "e",
                            "f", "a", "u", "l", "t", ":">>)
    THEN HeartDefaultRest(SubSeq(desc, i + 15, Len(desc))) ELSE <<>>

\* Math.max(0, parseInt(match[1], 10)) of the leftmost match, or 0.
HeartDefaultFirst(desc, hits) ==
    IF hits = {} THEN 0
    ELSE Max(0, DigitsVal(HeartDefaultAt(desc, CHOOSE i \in hits : \A j \in hits : i <= j)))

HeartDefaultIn(desc) ==
    HeartDefaultFirst(desc, {i \in 1..Len(desc) : HeartDefaultAt(desc, i) # <<>>})

getCharacterHeartDefault(c) ==
    IF c = NoCharacter THEN 0
    ELSE HeartDefaultIn(OrElse(c.description, <<>>) \o <<" ">>
                            \o OrElse(c.personality, <<>>) \o <<" ">>
                            \o OrElse(c.scenario, <<>>))

(***************************************************************************)
(* Message processing.  The extension's own state is the record            *)
(*   w = [settings, persisted, perMessageTracker, headers, prompt]:        *)
(* the settings object, the copy the host last saved (PT.saveSettings),    *)
(* the per-message cache, the headers set through PT.setMessageHeader and  *)
(* the text last handed to PT.setExtensionPrompt.  msgs is the host's      *)
(* ctx.recentMessages, a sequence of [index, isUser, text].                *)
(***************************************************************************)
\* The AI messages among msgs, in order.
RECURSIVE AiOnly(_)
AiOnly(msgs) ==
    IF Len(msgs) = 0 THEN <<>>
    ELSE (IF ~msgs[1].isUser THEN <<msgs[1]>> ELSE <<>>) \o AiOnly(Tail(msgs))

\* A scan of every AI message of the history.
LastTwo_All(ai) == ai

LastTwo(ai) == SubSeq(ai, Max(1, Len(ai) - 1), Len(ai))

\* The last (up to) two AI messages, oldest first.
LastTwoAi(msgs) == LastTwo(AiOnly(msgs))

\* The parsed value without Math.max.
HeartParsed_NoClamp(parsed, old) == IF ~isNaN(parsed) THEN parsed.val ELSE old

\* Math.max(0, parsed) when the heart tag parses, else the value kept.
HeartParsed(parsed, old) == IF ~isNaN(parsed) THEN Max(0, parsed.val) ELSE old

\* A heart tag that does not parse resets the points.
HeartFrom_Reset(heartTag, old) ==
    IF heartTag # Null THEN HeartParsed(parseInt(heartTag), 0) ELSE old

HeartFrom(heartTag, old) ==
    IF heartTag # Null THEN HeartParsed(parseInt(heartTag), old) ELSE old

\* Assignments that append the message's characters to the list held.
ApplyTags_Merge(s, tags) ==
    [s EXCEPT
       !.currentTime       = IF tags.time # Null THEN convertTo12Hour(tags.time) ELSE @,
       !.currentLocation   = IF tags.location # Null THEN tags.location ELSE @,
       !.currentWeather    = IF tags.weather # Null THEN tags.weather ELSE @,
       !.currentCharacters = @ \o tags.characters,
       !.heartPoints       = HeartFrom(tags.heart, @)]

\* The assignments of tags to the settings s.
ApplyTags(s, tags) ==
    [s EXCEPT
       !.currentTime       = IF tags.time # Null THEN convertTo12Hour(tags.time) ELSE @,
       !.currentLocation   = IF tags.location # Null THEN tags.location ELSE @,
       !.currentWeather    = IF tags.weather # Null THEN tags.weather ELSE @,
       !.currentCharacters = IF Len(tags.characters) > 0 THEN tags.characters ELSE @,
       !.heartPoints       = HeartFrom(tags.heart, @)]

\* ScanStore with the header built over the settings before the update.
ScanStore_StaleHeader(acc, m, tags, s) ==
    [w |-> [acc.w EXCEPT
              !.settings = s,
              !.perMessageTracker = Put(@, m.index, Snapshot(s)),
              !.headers = Put(@, m.index, buildHeader(tags, acc.w.settings))],
     anyUpdated |-> TRUE]

\* One turn of the for loop of scanRecentMessages, on message m;
\* acc = [w, anyUpdated], s the settings after the turn's assignments.
ScanStore(acc, m, tags, s) ==
    [w |-> [acc.w EXCEPT
              !.settings = s,
              !.perMessageTracker = Put(@, m.index, Snapshot(s)),
              !.headers = Put(@, m.index, buildHeader(tags, s))],
     anyUpdated |-> TRUE]

RECURSIVE ScanLoop(_, _, _)
ScanLoop(acc, aiMsgs, j) ==
    IF j >= Len(aiMsgs) THEN acc
    ELSE ScanLoop(IF ~hasTags(Tags(aiMsgs[j + 1].text)) THEN acc
                  ELSE ScanStore(acc, aiMsgs[j + 1], Tags(aiMsgs[j + 1].text),
                                 ApplyTags(acc.w.settings, Tags(aiMsgs[j + 1].text))),
                  aiMsgs, j + 1)

\* A scan that never saves.
ScanSave_Never(res) == res.w

\* if (anyUpdated) PT.saveSettings()
ScanSave(res) ==
    IF res.anyUpdated THEN [res.w EXCEPT !.persisted = res.w.settings] ELSE res.w

scanRecentMessages(w, msgs) ==
    IF Len(LastTwoAi(msgs)) = 0 THEN w
    ELSE ScanSave(ScanLoop([w |-> w, anyUpdated |-> FALSE], LastTwoAi(msgs), 0))

\* The greatest of the positions cand, or 0 when there is none.
LastOf(cand) == IF cand = {} THEN 0 ELSE CHOOSE i \in cand : \A j \in cand : j <= i

\* The position in msgs of the message processAiMessage takes missing fields
\* from: the last one that is not the user's and whose index is not
\* messageIndex; 0 when there is none.
BackfillSource(msgs, messageIndex) ==
    LastOf({i \in 1..Len(msgs) : ~msgs[i].isUser /\ msgs[i].index # messageIndex})

\* A fill that takes nothing from prevTags.
FillFrom_NoFill(tags, prevTags) == tags

\* tags with the fields it lacks filled from prevTags.
FillFrom(tags, prevTags) ==
    [time       |-> IF tags.time = Null /\ prevTags.time # Null
                    THEN prevTags.time ELSE tags.time,
     location   |-> IF tags.location = Null /\ prevTags.location # Null
                    THEN prevTags.location ELSE tags.location,
     weather    |-> IF tags.weather = Null /\ prevTags.weather # Null
                    THEN prevTags.weather ELSE tags.weather,
     heart      |-> IF tags.heart = Null /\ prevTags.heart # Null
                    THEN prevTags.heart ELSE tags.heart,
     characters |-> IF Len(tags.characters) = 0 /\ Len(prevTags.characters) > 0
                    THEN prevTags.characters ELSE tags.characters]

\* tags after the fill from the message at position src of msgs.
ResolveFill(tags, msgs, src) ==
    IF /\ \/ tags.time = Null \/ tags.location = Null
          \/ tags.weather = Null \/ tags.heart = Null
          \/ Len(tags.characters) = 0
       /\ src # 0
    THEN FillFrom(tags, Tags(msgs[src].text))
    ELSE tags

\* processAiMessage without the cache entry.
ProcessStore_NoCache(w, messageIndex, tags, s) ==
    [settings          |-> s,
     persisted         |-> s,
     perMessageTracker |-> w.perMessageTracker,
     headers           |-> Put(w.headers, messageIndex, buildHeader(tags, s)),
     prompt            |-> injectPrompt(s)]

\* processAiMessage from PT.saveSettings() on: s is the settings after the
\* assignments of the resolved tags.
ProcessStore(w, messageIndex, tags, s) ==
    [settings          |-> s,
     persisted         |-> s,
     perMessageTracker |-> Put(w.perMessageTracker, messageIndex, Snapshot(s)),
     headers           |-> Put(w.headers, messageIndex, buildHeader(tags, s)),
     prompt            |-> injectPrompt(s)]

ProcessTags(w, messageIndex, tags) ==
    ProcessStore(w, messageIndex, tags, ApplyTags(w.settings, tags))

\* processAiMessage without the hasTags early return.
ProcessParsed_NoSkip(w, msgs, messageIndex, tags) ==
    IF ~w.settings.enabled THEN w
    ELSE ProcessTags(w, messageIndex,
                     ResolveFill(tags, msgs, BackfillSource(msgs, messageIndex)))

ProcessParsed(w, msgs, messageIndex, tags) ==
    IF ~w.settings.enabled THEN w
    ELSE IF ~hasTags(tags) THEN w
    ELSE ProcessTags(w, messageIndex,
                     ResolveFill(tags, msgs, BackfillSource(msgs, messageIndex)))

processAiMessage(w, msgs, text, messageIndex) ==
    ProcessParsed(w, msgs, messageIndex, Tags(text))

\* getPreviousTrackerHeader(beforeIndex): the header shown on the nearest AI
\* message below beforeIndex; when it shows none, buildHeader of its own
\* tags over the current settings; Null when there is no such message or it
\* has no tags.
getPreviousTrackerHeader(w, msgs, src) ==
    IF src = 0 THEN Null
    ELSE IF msgs[src].index \in DOMAIN w.headers THEN w.headers[msgs[src].index]
    ELSE IF hasTags(Tags(msgs[src].text))
         THEN buildHeader(Tags(msgs[src].text), w.settings)
    ELSE Null

\* The hidden prompt of Regenerate for message regenIdx, its fixed texts one
\* token each.
RegeneratePrompt(prevHeaderText) ==
    <<"[OOC: Based ONLY on the conversation history ...\n\n">>
      \o (IF prevHeaderText # Null /\ prevHeaderText # <<>>
          THEN <<"The PREVIOUS message's tracker state was:\n">>
                 \o prevHeaderText
                 \o <<"\n\n", "Use this only as a reference point for continuity. ...\n\n">>
          ELSE <<>>)
      \o <<"Consider: ... Output ONLY the tracker tags and nothing else: ...">>

\* The index of the most recent AI message of msgs, or -1.
LastAiIndex(msgs) ==
    IF Len(AiOnly(msgs)) = 0 THEN -1 ELSE AiOnly(msgs)[Len(AiOnly(msgs))].index

(***************************************************************************)
(* Edit and Regenerate (onButtonClicked and its two completions)           *)
(***************************************************************************)
\* editData = _perMessageTracker[editIdx] || {}: has = FALSE is the empty
\* object, whose fields are all undefined.
EditDataOf(cache, editIdx) ==
    IF editIdx \in DOMAIN cache
    THEN [has |-> TRUE, snap |-> cache[editIdx]]
    ELSE [has |-> FALSE, snap |-> Snapshot(DEFAULT_SETTINGS)]

\* editData[field]
EdField(ed, field) == IF ed.has THEN ed.snap[field] ELSE Undefined

\* The values the Edit dialog is opened with.
EditForm(ed, s) ==
    [time       |-> OrElse(EdField(ed, "currentTime"), OrElse(s.currentTime, <<>>)),
     location   |-> OrElse(EdField(ed, "currentLocation"), OrElse(s.currentLocation, <<>>)),
     weather    |-> OrElse(EdField(ed, "currentWeather"), OrElse(s.currentWeather, <<>>)),
     heart      |-> IntToStr(IF ed.has THEN ed.snap.heartPoints ELSE s.heartPoints),
     characters |-> charsToString(IF ed.has THEN ed.snap.currentCharacters
                                  ELSE s.currentCharacters)]

\* The snapshot an Edit submission stores for the message: result is the
\* dialog's answer (a field the answer lacks is Undefined), ed the cache
\* entry captured at the click, s the settings as they are now, pts the
\* parsed heart field.
EditFields(result, ed, s, pts) ==
    [currentTime       |-> IF result.time # Undefined THEN result.time
                           ELSE OrElse(EdField(ed, "currentTime"), OrElse(s.currentTime, <<>>)),
     currentLocation   |-> IF result.location # Undefined THEN result.location
                           ELSE OrElse(EdField(ed, "currentLocation"), OrElse(s.currentLocation, <<>>)),
     currentWeather    |-> IF result.weather # Undefined THEN result.weather
                           ELSE OrElse(EdField(ed, "currentWeather"), OrElse(s.currentWeather, <<>>)),
     heartPoints       |-> IF result.heart # Undefined /\ ~isNaN(pts)
                           THEN Max(0, pts.val)
                           ELSE IF ed.has THEN ed.snap.heartPoints ELSE s.heartPoints,
     currentCharacters |-> IF result.characters # Undefined
                           THEN stringToChars(result.characters)
                           ELSE IF ed.has THEN ed.snap.currentCharacters
                           ELSE s.currentCharacters]

\* A completion that takes what the response lacks from the defaults.
RegenSnapshot_Defaults(tags, s) ==
    [currentTime       |-> IF tags.time # Null THEN convertTo12Hour(tags.time)
                           ELSE Placeholder.Unknown,
     currentLocation   |-> IF tags.location # Null THEN tags.location
                           ELSE Placeholder.Unknown,
     currentWeather    |-> IF tags.weather # Null THEN tags.weather
                           ELSE Placeholder.Unknown,
     heartPoints       |-> HeartFrom(tags.heart, 0),
     currentCharacters |-> tags.characters]

\* The snapshot a Regenerate completion stores: tags are the response's.
RegenSnapshot(tags, s) ==
    [currentTime       |-> IF tags.time # Null THEN convertTo12Hour(tags.time)
                           ELSE OrElse(s.currentTime, Placeholder.Unknown),
     currentLocation   |-> IF tags.location # Null THEN tags.location
                           ELSE OrElse(s.currentLocation, Placeholder.Unknown),
     currentWeather    |-> IF tags.weather # Null THEN tags.weather
                           ELSE OrElse(s.currentWeather, Placeholder.Unknown),
     heartPoints       |-> HeartFrom(tags.heart, s.heartPoints),
     currentCharacters |-> IF Len(tags.characters) > 0 THEN tags.characters
                           ELSE s.currentCharacters]

\* tempSettings: the visibility flags of s with the values of snap.

\* The settings with the five tracker fields of snap.
SnapshotSettings(s, snap) ==
    [s EXCEPT
       !.currentTime = snap.currentTime,
       !.currentLocation = snap.currentLocation,
       !.currentWeather = snap.currentWeather,
       !.heartPoints = snap.heartPoints,
       !.currentCharacters = snap.currentCharacters]

\* A completion that updates the settings for every message.
StoreLast_Always(w1, msgs, idx, s1) ==
    [w1 EXCEPT !.settings = s1, !.persisted = s1, !.prompt = injectPrompt(s1)]

\* if (idx === lastAiIdx): the settings, saved, and the prompt.
StoreLast(w1, msgs, idx, s1) ==
    IF LastAiIndex(msgs) = idx
    THEN [w1 EXCEPT !.settings = s1, !.persisted = s1, !.prompt = injectPrompt(s1)]
    ELSE w1

\* The tail common to both completions: the cache entry and the header of
\* message idx, and the settings when idx is the most recent AI message.
StoreSnapshot(w, msgs, idx, snap) ==
    StoreLast(
        [w EXCEPT
           !.perMessageTracker = Put(@, idx, snap),
           !.headers = Put(@, idx, buildHeader(NoTags,
               \* tempSettings
               [showTime |-> w.settings.showTime, showLocation |-> w.settings.showLocation,
                showWeather |-> w.settings.showWeather,
                showHeartMeter |-> w.settings.showHeartMeter,
                showCharacters |-> w.settings.showCharacters,
                currentTime |-> snap.currentTime, currentLocation |-> snap.currentLocation,
                currentWeather |-> snap.currentWeather, heartPoints |-> snap.heartPoints,
                currentCharacters |-> snap.currentCharacters]))],
        msgs, idx, SnapshotSettings(w.settings, snap))

\* The .then of PT.showEditDialog; ResultNull is a dismissed dialog.
ResultNull == [time |-> Null, location |-> Null, weather |-> Null,
               heart |-> Null, characters |-> Null]

EditCompletion(w, msgs, editIdx, ed, result) ==
    IF result = ResultNull THEN w
    ELSE StoreSnapshot(w, msgs, editIdx,
                       EditFields(result, ed, w.settings, parseInt(result.heart)))

\* The .then of PT.generateHidden.
RegenCompletion(w, msgs, regenIdx, response) ==
    IF response = <<>> THEN w
    ELSE IF ~hasTags(Tags(response)) THEN w
    ELSE StoreSnapshot(w, msgs, regenIdx, RegenSnapshot(Tags(response), w.settings))

(***************************************************************************)
(* Event handlers other than the button's                                  *)
(***************************************************************************)
onMessageReceived(w, msgs, data) == processAiMessage(w, msgs, data.text, data.index)

onMessageEdited(w, msgs, data) ==
    IF ~data.isUser THEN processAiMessage(w, msgs, data.text, data.index)
    ELSE [w EXCEPT !.headers = [x \in DOMAIN @ \ {data.index} |-> @[x]]]

\* A handler that keeps the cache.
onMessageDeleted_Keep(w) == w

onMessageDeleted(w) == [w EXCEPT !.perMessageTracker = EmptyMap]

\* A handler that ends without injectPrompt().
Reinject_Skip(w) == w

\* injectPrompt() as the last call of a handler.
Reinject(w) == [w EXCEPT !.prompt = injectPrompt(w.settings)]

onChatChanged(w, msgs) ==
    Reinject(scanRecentMessages(
                 [w EXCEPT !.headers = EmptyMap, !.perMessageTracker = EmptyMap], msgs))

\* A default that replaces whatever points are stored.
WithHeartDefault_Always(s, charDefault) ==
    IF charDefault > 0 THEN [s EXCEPT !.heartPoints = charDefault] ELSE s

\* if (s.heartPoints === 0 && charDefault > 0) s.heartPoints = charDefault
WithHeartDefault(s, charDefault) ==
    IF s.heartPoints = 0 /\ charDefault > 0
    THEN [s EXCEPT !.heartPoints = charDefault] ELSE s

\* The same in onCharacterChanged, where the settings are saved inside the if.
CharacterDefault(w, charDefault) ==
    IF w.settings.heartPoints = 0 /\ charDefault > 0
    THEN [w EXCEPT !.settings = WithHeartDefault(w.settings, charDefault),
                   !.persisted = WithHeartDefault(w.settings, charDefault)]
    ELSE w

onCharacterChanged(w, msgs, c) ==
    Reinject(scanRecentMessages(
                 [CharacterDefault(w, getCharacterHeartDefault(c))
                      EXCEPT !.perMessageTracker = EmptyMap], msgs))

\* The extension's state in init() after PT.saveSettings().
InitWorld(s) ==
    [settings |-> s, persisted |-> s, perMessageTracker |-> EmptyMap,
     headers |-> EmptyMap, prompt |-> <<>>]

\* init(): stored is the settings object the host loaded.
init(stored, msgs, c) ==
    Reinject(scanRecentMessages(
                 InitWorld(WithHeartDefault(getSettings(stored),
                                            getCharacterHeartDefault(c))), msgs))

(***************************************************************************)
(* The inputs the host delivers.                                           *)
(***************************************************************************)
Msg(i, u, t) == [index |-> i, isUser |-> u, text |-> t]

\* The histories of the chats the host can switch to.
SavedChats ==
    {<<>>,
     <<Msg(0, FALSE, Text.TimeHeart)>>,
     <<Msg(0, FALSE, Text.LocChars), Msg(1, FALSE, Text.TimeHeart),
       Msg(2, FALSE, Text.BlankRainNeg)>>}

\* The characters the host can switch to.
Characters ==
    {NoCharacter,
     \* description "Shy. [heart_default: 500]"
     [description |-> <<"S", "h", "y", ".", " ", "[", "h", "e", "a", "r", "t",
                        "_", "d", "e", "f", "a", "u", "l", "t", ":", " ", "5",
                        "0", "0", "]">>,
      personality |-> Null, scenario |-> <<>>]}

\* The settings objects the host can hand to init: none stored yet, and one
\* the user switched off.
StoredSettings == {EmptyMap, [enabled |-> FALSE]}

(***************************************************************************)
(* The state machine                                                       *)
(***************************************************************************)
World ==
    [settings |-> settings, persisted |-> persisted,
     perMessageTracker |-> perMessageTracker, headers |-> headers, prompt |-> prompt]

\* The extension's state after the step is w.
Becomes(w) ==
    /\ settings' = w.settings
    /\ persisted' = w.persisted
    /\ perMessageTracker' = w.perMessageTracker
    /\ headers' = w.headers
    /\ prompt' = w.prompt

NoArg == <<>>
NoButtons == -1

\* The event handled last; asked is, for a completion, the tracker fields
\* the settings held when its button was clicked.
Event(ev, index, arg) == [ev |-> ev, index |-> index, arg |-> arg, asked |-> NoArg]

\* One more event is delivered by the host.  The two completions answer a
\* click that was counted and are not counted again.
Tick == steps < MaxSteps /\ steps' = steps + 1

\* The extension's state is w.
Starts(w) ==
    /\ settings = w.settings
    /\ persisted = w.persisted
    /\ perMessageTracker = w.perMessageTracker
    /\ headers = w.headers
    /\ prompt = w.prompt

Init ==
    \E stored \in StoredSettings, chat \in SavedChats, c \in Characters :
        /\ Starts(init(stored, chat, c))
        /\ recentMessages = chat
        /\ character = c
        /\ pending = {}
        /\ headerButtons = NoButtons
        /\ generating = FALSE
        /\ buttons = <<>>
        /\ steps = 0
        /\ last = Event("init", -1, NoArg)

\* MESSAGE_RECEIVED: the host has appended the message.
MessageReceived ==
    \E isUser \in BOOLEAN :
      \E text \in (IF isUser THEN UserTexts ELSE AiTexts) :
        LET data == Msg(Len(recentMessages), isUser, text)
            msgs == Append(recentMessages, data)
        IN  /\ Tick
            /\ Len(recentMessages) < MaxMsgs
            /\ recentMessages' = msgs
            /\ Becomes(onMessageReceived(World, msgs, data))
            /\ last' = Event("received", data.index, text)
            /\ UNCHANGED <<generating, buttons, character, pending, headerButtons>>

\* MESSAGE_EDITED: the host has replaced the text of one message.
MessageEdited ==
    \E i \in 1..Len(recentMessages) :
      \E text \in (IF recentMessages[i].isUser THEN UserTexts ELSE AiTexts) :
        LET data == [recentMessages[i] EXCEPT !.text = text]
            msgs == [recentMessages EXCEPT ![i] = data]
        IN  /\ Tick
            /\ text # recentMessages[i].text
            /\ recentMessages' = msgs
            /\ Becomes(onMessageEdited(World, msgs, data))
            /\ last' = Event("edited", data.index, text)
            /\ UNCHANGED <<generating, buttons, character, pending, headerButtons>>

\* MESSAGE_DELETED: the host has removed the last message and its header.
MessageDeleted ==
    LET n    == Len(recentMessages)
        gone == recentMessages[n].index
        w    == onMessageDeleted(World)
    IN  /\ Tick
        /\ n > 0
        /\ recentMessages' = SubSeq(recentMessages, 1, n - 1)
        /\ Becomes([w EXCEPT !.headers = [x \in DOMAIN @ \ {gone} |-> @[x]]])
        /\ last' = Event("deleted", gone, NoArg)
        /\ UNCHANGED <<generating, buttons, character, pending, headerButtons>>

\* CHAT_CHANGED: the host shows another chat.
ChatChanged ==
    \E chat \in SavedChats :
        /\ Tick
        /\ recentMessages' = chat
        /\ Becomes(onChatChanged(World, chat))
        /\ last' = Event("chat", -1, NoArg)
        /\ UNCHANGED <<generating, buttons, character, pending, headerButtons>>

\* CHARACTER_CHANGED: ctx.character is another character.
CharacterChanged ==
    \E c \in Characters :
        /\ Tick
        /\ c # character
        /\ character' = c
        /\ Becomes(onCharacterChanged(World, recentMessages, c))
        /\ last' = Event("character", -1, NoArg)
        /\ UNCHANGED <<generating, buttons, recentMessages, pending, headerButtons>>

\* The app is restarted: init() runs on the settings that were saved, with
\* the chat and the character the host shows; cache, headers, open dialogs
\* and requests of the earlier run are gone.
Reloaded ==
    /\ Tick
    /\ Becomes(init(persisted, recentMessages, character))
    /\ pending' = {}
    /\ headerButtons' = NoButtons
    /\ last' = Event("reload", -1, NoArg)
    /\ UNCHANGED <<generating, buttons, recentMessages, character>>

\* HEADER_LONG_PRESSED on a message that shows a header.
HeaderLongPressed ==
    \E msgIndex \in DOMAIN headers :
        /\ Tick
        /\ headerButtons # msgIndex
        /\ headerButtons' = msgIndex
        /\ last' = Event("longpress", msgIndex, NoArg)
        /\ UNCHANGED <<generating, buttons, settings, persisted, perMessageTracker, headers, prompt,
                       recentMessages, character, pending>>

\* BUTTON_CLICKED with action edit_message_<n>: the dialog opens.
EditClicked ==
    LET editIdx  == headerButtons
        editData == EditDataOf(perMessageTracker, editIdx)
    IN  /\ Tick
        /\ headerButtons # NoButtons
        /\ Cardinality(pending) < MaxPending
        /\ pending' = pending \cup
               {[kind |-> "edit", idx |-> editIdx, editData |-> editData,
                 form |-> EditForm(editData, settings),
                 asked |-> Snapshot(settings)]}
        /\ last' = Event("click_edit", editIdx, NoArg)
        /\ UNCHANGED <<generating, buttons, settings, persisted, perMessageTracker, headers, prompt,
                       recentMessages, character, headerButtons>>

\* The dialog is answered: dismissed, submitted as it was opened, with a
\* negative heart and a cleared location, with another character list, or
\* with only a time.
EditSubmitted ==
    \E p \in pending :
      \E result \in {ResultNull,
                      p.form,
                      [p.form EXCEPT !.heart = Typed.Neg, !.location = <<>>],
                      [p.form EXCEPT !.characters = Typed.Carol],
                      [time |-> Typed.Time, location |-> Undefined,
                       weather |-> Undefined, heart |-> Undefined,
                       characters |-> Undefined]} :
        /\ p.kind = "edit"
        /\ pending' = pending \ {p}
        /\ Becomes(EditCompletion(World, recentMessages, p.idx, p.editData, result))
        /\ last' = [Event("edit_done", p.idx, result) EXCEPT !.asked = p.asked]
        /\ UNCHANGED <<generating, buttons, recentMessages, character, headerButtons, steps>>

\* BUTTON_CLICKED with action regenerate_message_<n>: the hidden request
\* is sent; last.arg is its prompt.
RegenerateClicked ==
    LET regenIdx == headerButtons
    IN  /\ Tick
        /\ headerButtons # NoButtons
        /\ Cardinality(pending) < MaxPending
        /\ pending' = pending \cup
               {[kind |-> "regen", idx |-> regenIdx,
                 editData |-> EditDataOf(EmptyMap, regenIdx), form |-> ResultNull,
                 asked |-> Snapshot(settings)]}
        /\ last' = Event("click_regen", regenIdx,
                         RegeneratePrompt(getPreviousTrackerHeader(
                             World, recentMessages,
                             LastOf({i \in 1..Len(recentMessages) :
                                        /\ ~recentMessages[i].isUser
                                        /\ recentMessages[i].index < regenIdx}))))
        /\ UNCHANGED <<generating, buttons, settings, persisted, perMessageTracker, headers, prompt,
                       recentMessages, character, headerButtons>>

\* The hidden request is answered.
RegenerateCompleted ==
    \E p \in pending :
      \E response \in RegenResponses :
        /\ p.kind = "regen"
        /\ pending' = pending \ {p}
        /\ Becomes(RegenCompletion(World, recentMessages, p.idx, response))
        /\ last' = [Event("regen_done", p.idx, response) EXCEPT !.asked = p.asked]
        /\ UNCHANGED <<generating, buttons, recentMessages, character, headerButtons, steps>>

Next ==
    \/ MessageReceived
    \/ MessageEdited
    \/ MessageDeleted
    \/ ChatChanged
    \/ CharacterChanged
    \/ Reloaded
    \/ HeaderLongPressed
    \/ EditClicked
    \/ EditSubmitted
    \/ RegenerateClicked
    \/ RegenerateCompleted

Spec == Init /\ [][Next]_vars

(***************************************************************************)
(* buildPrompt followed by parseTags, applied to settings objects.  The    *)
(* block built is kept in prompt and the tags parsed from it in last.arg.  *)
(***************************************************************************)
\* The settings objects the round trip is applied to: scalars as tags and
\* the Edit dialog leave them (empty, a value, a value typed with a leading
\* blank), heart points and character lists.
RoundTripInit ==
    \E s \in {[DEFAULT_SETTINGS EXCEPT !.currentTime = t, !.currentLocation = l,
                                        !.currentWeather = wt, !.heartPoints = h,
                                        !.currentCharacters = cs] :
                  t \in {<<>>, convertTo12Hour(Tags(Text.TimeHeart).time)},
                  l \in {<<>>, Tags(Text.LocChars).location,
                          <<" ">> \o Tags(Text.LocChars).location},
                  wt \in {<<>>, Tags(Text.BlankRainNeg).weather},
                  h \in {0, 80000},
                  cs \in {<<>>, Tags(Text.CarolNaN).characters,
                           Tags(Text.LocChars).characters}} :
        /\ Starts(InitWorld(s))
        /\ recentMessages = <<>>
        /\ character = NoCharacter
        /\ pending = {}
        /\ headerButtons = NoButtons
        /\ generating = FALSE
        /\ buttons = <<>>
        /\ steps = 0
        /\ last = Event("init", -1, NoArg)

\* The current-state block is built from the settings.
BlockBuilt ==
    /\ last.ev = "init"
    /\ prompt' = CurrentState(settings)
    /\ last' = Event("built", -1, NoArg)
    /\ UNCHANGED <<generating, buttons, settings, persisted, perMessageTracker, headers,
                   recentMessages, character, pending, headerButtons, steps>>

\* parseTags is applied to the block.
BlockParsed ==
    /\ last.ev = "built"
    /\ last' = Event("parsed", -1, parseTags(prompt))
    /\ UNCHANGED <<generating, buttons, settings, persisted, perMessageTracker, headers, prompt,
                   recentMessages, character, pending, headerButtons, steps>>

RoundTripNext == BlockBuilt \/ BlockParsed

RoundTripSpec == RoundTripInit /\ [][RoundTripNext]_vars

(***************************************************************************)
(* The quick-reply buttons of src/index.js.  generating is the host's      *)
(* state between GENERATION_STARTED and GENERATION_STOPPED, buttons the    *)
(* set registered last with PT.registerButtons.                            *)
(***************************************************************************)
MaxEvents == 5

\* The labels of the buttons shown when the AI is idle.
DEFAULT_BUTTONS == <<"Continue", "Refresh Tracker", "Reset Heart">>

\* The labels of the buttons shown while a generation is in progress.
STOP_BUTTONS == <<"Stop">>

\* injectPrompt() of index.js: the fixed TRACKER_PROMPT, one token, or ''.
TrackerPrompt(s) == IF s.enabled THEN <<"TRACKER_PROMPT">> ELSE <<>>

\* init() of index.js: getSettings, saveSettings, injectPrompt and
\* registerDefaultButtons.  Its defaults are the eight keys listed, with
\* the values DEFAULT_SETTINGS has for them.
ButtonsInit ==
    \E stored \in StoredSettings, c \in Characters :
        /\ settings = [key \in {"enabled", "scanDepth", "defaultHeartPoints",
                                "heartPoints", "showTime", "showLocation",
                                "showWeather", "showHeartMeter"}
                           |-> getSettings(stored)[key]]
        /\ persisted = settings
        /\ prompt = TrackerPrompt(settings)
        /\ buttons = DEFAULT_BUTTONS
        /\ generating = FALSE
        /\ character = c
        /\ perMessageTracker = EmptyMap
        /\ headers = EmptyMap
        /\ recentMessages = <<>>
        /\ pending = {}
        /\ headerButtons = NoButtons
        /\ steps = 0
        /\ last = Event("init", -1, NoArg)

\* GENERATION_STARTED: registerStopButton().
GenerationStarted ==
    /\ steps < MaxEvents
    /\ steps' = steps + 1
    /\ generating' = TRUE
    /\ buttons' = STOP_BUTTONS
    /\ last' = Event("started", -1, NoArg)
    /\ UNCHANGED <<settings, persisted, perMessageTracker, headers, prompt,
                   recentMessages, character, pending, headerButtons>>

\* GENERATION_STOPPED: registerDefaultButtons().
GenerationStopped ==
    /\ steps < MaxEvents
    /\ steps' = steps + 1
    /\ generating' = FALSE
    /\ buttons' = DEFAULT_BUTTONS
    /\ last' = Event("stopped", -1, NoArg)
    /\ UNCHANGED <<settings, persisted, perMessageTracker, headers, prompt,
                   recentMessages, character, pending, headerButtons>>

\* CHAT_CHANGED in index.js: clearAllHeaders() and injectPrompt().
ChatSwitched ==
    /\ steps < MaxEvents
    /\ steps' = steps + 1
    /\ headers' = EmptyMap
    /\ prompt' = TrackerPrompt(settings)
    /\ last' = Event("chat", -1, NoArg)
    /\ UNCHANGED <<settings, persisted, perMessageTracker, recentMessages,
                   character, pending, headerButtons, generating, buttons>>

\* CHARACTER_CHANGED in index.js: registerDefaultButtons() and
\* injectPrompt().
CharacterSwitched ==
    \E c \in Characters :
        /\ steps < MaxEvents
        /\ steps' = steps + 1
        /\ c # character
        /\ character' = c
        /\ buttons' = DEFAULT_BUTTONS
        /\ prompt' = TrackerPrompt(settings)
        /\ last' = Event("character", -1, NoArg)
        /\ UNCHANGED <<settings, persisted, perMessageTracker, headers,
                       recentMessages, pending, headerButtons, generating>>

ButtonsNext ==
    \/ GenerationStarted
    \/ GenerationStopped
    \/ ChatSwitched
    \/ CharacterSwitched

ButtonsSpec == ButtonsInit /\ [][ButtonsNext]_vars

(***************************************************************************)
(* The pure functions, each applied once to an input drawn from a bounded  *)
(* set.  last.arg holds the input and the value returned.                  *)
(***************************************************************************)
CallInit ==
    /\ Starts(InitWorld(DEFAULT_SETTINGS))
    /\ recentMessages = <<>>
    /\ character = NoCharacter
    /\ pending = {}
    /\ headerButtons = NoButtons
    /\ generating = FALSE
    /\ buttons = <<>>
    /\ steps = 0
    /\ last = Event("init", -1, NoArg)

\* buildHeader(tags, s) for every choice of the five display toggles, tags
\* with and without characters, and settings with and without characters.
HeaderBuilt ==
    \E flags \in [{"showTime", "showLocation", "showWeather", "showHeartMeter",
                   "showCharacters"} -> BOOLEAN],
       tags \in {NoTags, Tags(Text.TimeHeart), Tags(Text.LocChars)},
       cs \in {<<>>, Tags(Text.CarolNaN).characters} :
        LET s == [key \in DOMAIN DEFAULT_SETTINGS |->
                     IF key \in DOMAIN flags THEN flags[key]
                     ELSE IF key = "currentCharacters" THEN cs
                     ELSE DEFAULT_SETTINGS[key]]
        IN  /\ last.ev = "init"
            /\ last' = Event("header", -1,
                             [tags |-> tags, s |-> s, header |-> buildHeader(tags, s)])
            /\ UNCHANGED <<settings, persisted, perMessageTracker, headers, prompt,
                           recentMessages, character, pending, headerButtons,
                           steps, generating, buttons>>

\* getHeartEmoji(points) and getHeartEmoji(other) for two point values, each
\* below zero, at, just below or above a threshold.
EmojiChosen ==
    \E points, other \in {-50, -1, 0, 4999, 5000, 19999, 20000, 29999, 30000,
                          39999, 40000, 49999, 50000, 59999, 60000, 69999,
                          70000, 80000, 1000000} :
        /\ last.ev = "init"
        /\ last' = Event("emoji", -1,
                         [points |-> points, emoji |-> getHeartEmoji(points),
                          other |-> other, otherEmoji |-> getHeartEmoji(other)])
        /\ UNCHANGED <<settings, persisted, perMessageTracker, headers, prompt,
                       recentMessages, character, pending, headerButtons,
                       steps, generating, buttons>>

\* convertTo12Hour on H:MM and H:MM:SS, hour 0 to 25 with one or two
\* digits, with and without seconds and a suffix ("; Mon", " ;x").  again
\* is convertTo12Hour of the result.
TimeConverted ==
    \E h \in 0..25, pad \in BOOLEAN,
       m \in {<<"0", "0">>, <<"0", "5">>, <<"5", "9">>},
       sec \in {<<>>, <<":", "3", "0">>},
       suffix \in {<<>>, <<";", " ", "M", "o", "n">>, <<" ", ";", "x">>} :
        LET timeStr == (IF pad /\ h < 10 THEN <<"0">> ELSE <<>>) \o NatToStr(h)
                           \o <<":">> \o m \o sec \o suffix
        IN  /\ last.ev = "init"
            /\ last' = Event("time", -1,
                             [timeStr |-> timeStr, hours |-> h, minutes |-> m,
                              suffix |-> suffix,
                              result |-> convertTo12Hour(timeStr),
                              again |-> convertTo12Hour(convertTo12Hour(timeStr))])
            /\ UNCHANGED <<settings, persisted, perMessageTracker, headers, prompt,
                           recentMessages, character, pending, headerButtons,
                           steps, generating, buttons>>

\* convertTo12Hour on strings of other shapes: '', "1:05 PM", "2:05 pm; Mon",
\* "noon", "7:5", "13:05x", "123:05", "13:05; Camp" and "13:05 ".
TimeGiven ==
    \E timeStr \in {<<>>, <<"1", ":", "0", "5", " ", "P", "M">>,
                    <<"2", ":", "0", "5", " ", "p", "m", ";", " ", "M", "o", "n">>,
                    <<"n", "o", "o", "n">>, <<"7", ":", "5">>,
                    <<"1", "3", ":", "0", "5", "x">>,
                    <<"1", "2", "3", ":", "0", "5">>,
                    <<"1", "3", ":", "0", "5", ";", " ", "C", "a", "m", "p">>,
                    <<"1", "3", ":", "0", "5", " ">>} :
        /\ last.ev = "init"
        /\ last' = Event("timeText", -1,
                         [timeStr |-> timeStr,
                          result |-> convertTo12Hour(timeStr),
                          again |-> convertTo12Hour(convertTo12Hour(timeStr))])
        /\ UNCHANGED <<settings, persisted, perMessageTracker, headers, prompt,
                       recentMessages, character, pending, headerButtons,
                       steps, generating, buttons>>

\* parseTags on a text with one tag-like piece for a scalar key, written in
\* lower or upper case, as "[key:body]" (shape "tag"), "[key:body" (shape
\* "unclosed"), "[key body]" ("nocolon"), "key:body]" ("nobracket") or
\* "[keys:body]" ("otherkey"), where body is value with blanks around it, and
\* then "[other: zz]" for a second key (a second occurrence when it is the
\* same key) or nothing.
TagsParsed ==
    \E key \in {"time", "location", "weather", "heart"},
       other \in {"time", "location", "weather", "heart", "none"},
       upper \in BOOLEAN,
       lead \in {<<>>, <<" ", " ">>},
       value \in {<<>>, <<"5">>, <<"a", " ", "b">>},
       trail \in {<<>>, <<" ">>},
       shape \in {"tag", "unclosed", "nocolon", "nobracket", "otherkey"} :
        LET UpperChar(c) ==
                IF \E u \in DOMAIN LowerOf : LowerOf[u] = c
                THEN CHOOSE u \in DOMAIN LowerOf : LowerOf[u] = c ELSE c
            name == IF upper THEN [i \in 1..Len(Key[key]) |-> UpperChar(Key[key][i])]
                    ELSE Key[key]
            body == lead \o value \o trail
            text == (IF shape = "nobracket" THEN <<>> ELSE <<"[">>)
                      \o name
                      \o (IF shape = "otherkey" THEN <<"s">> ELSE <<>>)
                      \o (IF shape = "nocolon" THEN <<" ">> ELSE <<":">>)
                      \o body
                      \o (IF shape = "unclosed" THEN <<>> ELSE <<"]">>)
                      \o (IF other = "none" \/ shape = "unclosed" THEN <<>>
                          ELSE <<"[">> \o Key[other] \o <<":", " ", "z", "z", "]">>)
        IN  /\ last.ev = "init"
            /\ last' = Event("tags", -1,
                             [text |-> text, key |-> key, other |-> other,
                              shape |-> shape, body |-> body, value |-> value,
                              tags |-> parseTags(text)])
            /\ UNCHANGED <<settings, persisted, perMessageTracker, headers, prompt,
                           recentMessages, character, pending, headerButtons,
                           steps, generating, buttons>>

\* parseTags on a text of one or two [char: ...] tags.  Each tag is given
\* by its segments: the text of the segment, the recognized key it starts
\* with ("bare" without colon, "unknown" for another key) and the value
\* after the colon.  The segments are joined with "|" or " | ".  back is
\* the list the Edit form gives back for the parsed characters, left as
\* charsToString shows them.
CharsParsed ==
    \E first \in {[text |-> <<"A", "l", "i", "c", "e">>, kind |-> "bare", value |-> <<>>],
                 [text |-> <<"n", "a", "m", "e", ":", " ", "A", "l", "i", "c", "e">>, kind |-> "name", value |-> <<"A", "l", "i", "c", "e">>],
                 [text |-> <<"N", "A", "M", "E", ":", "A", "l">>, kind |-> "name", value |-> <<"A", "l">>],
                 [text |-> <<"m", "o", "o", "d", ":", " ", "x">>, kind |-> "unknown", value |-> <<>>],
                 [text |-> <<"o", "u", "t", "f", "i", "t", ":", " ", "r", "e", "d">>, kind |-> "outfit", value |-> <<"r", "e", "d">>]},
       rest \in {<<>>} \cup {<<seg>> : seg \in
                   {[text |-> <<"S", "t", "a", "t", "e", ":", " ", "s", "h", "y">>, kind |-> "state", value |-> <<"s", "h", "y">>],
                    [text |-> <<"B", "o", "b">>, kind |-> "bare", value |-> <<>>],
                    [text |-> <<"m", "o", "o", "d", ":", " ", "x">>, kind |-> "unknown", value |-> <<>>],
                    [text |-> <<"n", "a", "m", "e", ":", " ", "Z", "e", "d">>, kind |-> "name", value |-> <<"Z", "e", "d">>],
                    [text |-> <<"o", "u", "t", "f", "i", "t", ":", " ", "r", "e", "d", ";", " ", "h", "a", "t">>, kind |-> "outfit", value |-> <<"r", "e", "d", ";", " ", "h", "a", "t">>],
                    [text |-> <<"p", "o", "s", "i", "t", "i", "o", "n", " ", ":", " ", "b", "y", ":", " ", "d", "o", "o", "r">>, kind |-> "position", value |-> <<"b", "y", ":", " ", "d", "o", "o", "r">>]}},
       more \in {<<>>,
                 <<<<[text |-> <<"B", "o", "b">>, kind |-> "bare", value |-> <<>>], [text |-> <<"s", "t", "a", "t", "e", ":", " ", "s", "h", "y">>, kind |-> "state", value |-> <<"s", "h", "y">>]>>>>,
                 <<<<[text |-> <<"o", "u", "t", "f", "i", "t", ":", " ", "x">>, kind |-> "outfit", value |-> <<"x">>]>>>>},
       bar \in {<<"|">>, <<" ", "|", " ">>} :
        LET entries == <<<<first>> \o rest>> \o more
            TagText(segs) ==
                <<"[", "c", "h", "a", "r", ":", " ">>
                  \o join([n \in 1..Len(segs) |-> segs[n].text], bar) \o <<"]">>
            text == join([n \in 1..Len(entries) |-> TagText(entries[n])], <<" ">>)
        IN  /\ last.ev = "init"
            /\ last' = Event("chars", -1,
                             [text |-> text, entries |-> entries,
                              tags |-> parseTags(text),
                              back |-> stringToChars(
                                  charsToString(parseTags(text).characters))])
            /\ UNCHANGED <<settings, persisted, perMessageTracker, headers, prompt,
                           recentMessages, character, pending, headerButtons,
                           steps, generating, buttons>>

\* getSettings() on a stored object that defines any subset of the keys
\* enabled, heartPoints, currentTime, showTime and scanDepth, with the falsy
\* values false, 0 and '' or with other values, and of a key of its own.
\* twice is the object after a second call.
SettingsRead ==
    \E keys \in SUBSET {"enabled", "heartPoints", "currentTime", "showTime",
                        "scanDepth", "theme"},
       falsy \in BOOLEAN :
        LET given == [enabled |-> FALSE, heartPoints |-> IF falsy THEN 0 ELSE 300,
                      currentTime |-> IF falsy THEN <<>> ELSE <<"9", ":", "0", "0">>,
                      showTime |-> FALSE, scanDepth |-> IF falsy THEN 0 ELSE 3,
                      theme |-> <<"d", "a", "r", "k">>]
            stored == [key \in keys |-> given[key]]
        IN  /\ last.ev = "init"
            /\ last' = Event("settings", -1,
                             [stored |-> stored, once |-> getSettings(stored),
                              twice |-> getSettings(getSettings(stored))])
            /\ UNCHANGED <<settings, persisted, perMessageTracker, headers, prompt,
                           recentMessages, character, pending, headerButtons,
                           steps, generating, buttons>>

CallNext ==
    \/ HeaderBuilt
    \/ EmojiChosen
    \/ TimeConverted
    \/ TimeGiven
    \/ TagsParsed
    \/ CharsParsed
    \/ SettingsRead

CallSpec == CallInit /\ [][CallNext]_vars

(***************************************************************************)
(* The per-message buttons of variant part_000.  headerButtons is          *)
(* _headerButtonsVisible, the set of message indices whose flag is set;    *)
(* buttons are the registered quick-reply buttons, each one the tuple of   *)
(* its action or label.  A settings object keeps the keys of part_002, of  *)
(* which part_000 reads neither showCharacters nor currentCharacters, and  *)
(* a cache entry has the four fields part_000 stores.                      *)
(***************************************************************************)
\* buildHeader of part_000: four lines, the heart points in brackets.
buildHeader_part000(tags, s) ==
    join((IF s.showTime
          THEN <<<<Label.Time>> \o convertTo12Hour(
                     OrElse(tags.time, OrElse(s.currentTime, Placeholder.Unknown)))>>
          ELSE <<>>)
         \o (IF s.showLocation
             THEN <<<<Label.Location>>
                      \o OrElse(tags.location, OrElse(s.currentLocation, Placeholder.Unknown))>>
             ELSE <<>>)
         \o (IF s.showWeather
             THEN <<<<Label.Weather>>
                      \o OrElse(tags.weather, OrElse(s.currentWeather, Placeholder.Unknown))>>
             ELSE <<>>)
         \o (IF s.showHeartMeter
             THEN <<<<"Heart Meter: ", getHeartEmoji(s.heartPoints), " ", "(">>
                      \o IntToStr(s.heartPoints) \o <<")">>>>
             ELSE <<>>),
         <<"\n">>)

\* The two loops of scanRecentMessages of part_000 over aiMsgs: every message
\* updates the settings from its four scalar tags and gets a cache entry;
\* then the settings are saved and every message gets its header.
RECURSIVE ScanLoop_part000(_, _, _)
ScanLoop_part000(w, aiMsgs, j) ==
    IF j >= Len(aiMsgs)
    THEN [w EXCEPT
            !.persisted = w.settings,
            !.headers = [i \in DOMAIN @ \cup {aiMsgs[k].index : k \in 1..Len(aiMsgs)} |->
                            IF \E k \in 1..Len(aiMsgs) : aiMsgs[k].index = i
                            THEN buildHeader_part000(
                                     Tags((CHOOSE m \in {aiMsgs[k] : k \in 1..Len(aiMsgs)} :
                                               m.index = i).text),
                                     w.settings)
                            ELSE @[i]]]
    ELSE ScanLoop_part000(
             [w EXCEPT
                !.settings = ApplyTags(@, [Tags(aiMsgs[j + 1].text)
                                              EXCEPT !.characters = <<>>]),
                !.perMessageTracker =
                    Put(@, aiMsgs[j + 1].index,
                        [f \in {"currentTime", "currentLocation", "currentWeather",
                                "heartPoints"} |->
                            ApplyTags(w.settings,
                                      [Tags(aiMsgs[j + 1].text)
                                          EXCEPT !.characters = <<>>])[f]])],
             aiMsgs, j + 1)

scanRecentMessages_part000(w, msgs) ==
    IF Len(LastTwoAi(msgs)) = 0 THEN w
    ELSE ScanLoop_part000(w, LastTwoAi(msgs), 0)

\* injectPrompt of part_000, the fixed texts of buildPrompt one token each.
injectPrompt_part000(w) ==
    [w EXCEPT !.prompt =
        IF ~w.settings.enabled THEN <<>>
        ELSE <<"[PTTracker Instructions] ... Current tracker state (continue from here):\n">>
               \o ScalarLines(w.settings)
               \o <<"\n\nUpdate ONLY the values that have changed. ...">>]

\* onCharacterChanged of part_000 without its registerDefaultButtons: the
\* heart points become the character's default, then rescan and re-inject.
\* init() makes the same calls on the settings the host loaded.
onCharacterChanged_part000(w, msgs, c) ==
    injectPrompt_part000(scanRecentMessages_part000(
        [w EXCEPT !.settings = [@ EXCEPT !.heartPoints = getCharacterHeartDefault(c)],
                  !.persisted = [w.settings EXCEPT
                                    !.heartPoints = getCharacterHeartDefault(c)]],
        msgs))

LongPressInit ==
    \E stored \in StoredSettings, chat \in SavedChats, c \in Characters :
        /\ Starts(onCharacterChanged_part000(InitWorld(getSettings(stored)), chat, c))
        /\ recentMessages = chat
        /\ character = c
        /\ pending = {}
        /\ headerButtons = {}
        /\ generating = FALSE
        /\ buttons = <<>>
        /\ steps = 0
        /\ last = Event("init", -1, NoArg)

\* HEADER_LONG_PRESSED on a message that shows a header.
HeaderPressed ==
    \E msgIndex \in DOMAIN headers :
        /\ steps < MaxEvents
        /\ steps' = steps + 1
        /\ IF msgIndex \in headerButtons
           THEN UNCHANGED <<headerButtons, buttons>>
           ELSE /\ headerButtons' = headerButtons \cup {msgIndex}
                /\ buttons' = <<<<"edit_message_", msgIndex>>,
                                <<"regenerate_message_", msgIndex>>,
                                <<"hide_buttons">>>>
        /\ last' = Event("longpress", msgIndex, NoArg)
        /\ UNCHANGED <<settings, persisted, perMessageTracker, headers, prompt,
                       recentMessages, character, pending, generating>>

\* BUTTON_CLICKED with action hide_buttons, a button that is registered.
HideClicked ==
    /\ steps < MaxEvents
    /\ steps' = steps + 1
    /\ \E n \in 1..Len(buttons) : buttons[n] = <<"hide_buttons">>
    /\ headerButtons' = {}
    /\ buttons' = <<>>
    /\ last' = Event("hide", -1, NoArg)
    /\ UNCHANGED <<settings, persisted, perMessageTracker, headers, prompt,
                   recentMessages, character, pending, generating>>

\* GENERATION_STARTED: registerStopButton.
GenerationBegan ==
    /\ steps < MaxEvents
    /\ steps' = steps + 1
    /\ generating' = TRUE
    /\ buttons' = <<<<"Stop">>>>
    /\ last' = Event("started", -1, NoArg)
    /\ UNCHANGED <<settings, persisted, perMessageTracker, headers, prompt,
                   recentMessages, character, pending, headerButtons>>

\* GENERATION_STOPPED: registerDefaultButtons, and DEFAULT_BUTTONS is [].
GenerationEnded ==
    /\ steps < MaxEvents
    /\ steps' = steps + 1
    /\ generating' = FALSE
    /\ buttons' = <<>>
    /\ last' = Event("stopped", -1, NoArg)
    /\ UNCHANGED <<settings, persisted, perMessageTracker, headers, prompt,
                   recentMessages, character, pending, headerButtons>>

\* CHARACTER_CHANGED: ctx.character is another character.
CharacterReplaced ==
    \E c \in Characters :
        /\ steps < MaxEvents
        /\ steps' = steps + 1
        /\ c # character
        /\ character' = c
        /\ Becomes(onCharacterChanged_part000(World, recentMessages, c))
        /\ buttons' = <<>>
        /\ last' = Event("character", -1, NoArg)
        /\ UNCHANGED <<recentMessages, pending, headerButtons, generating>>

LongPressNext ==
    \/ HeaderPressed
    \/ HideClicked
    \/ GenerationBegan
    \/ GenerationEnded
    \/ CharacterReplaced

LongPressSpec == LongPressInit /\ [][LongPressNext]_vars

(***************************************************************************)
(* Properties.  last is the event handled last: its name, the index of the *)
(* message it is about and the text (response, dialog answer) delivered    *)
(* with it.  The message with index i is at position i + 1 of the history. *)
(***************************************************************************)
\* Event e made the handler call processAiMessage (msgs is the history the
\* handler sees).
ProcessCall(e, msgs) ==
    \/ e.ev = "received"
    \/ e.ev = "edited" /\ ~msgs[e.index + 1].isUser

\* The call did not return early: s are the settings it found.
Processed(e, msgs, s) == ProcessCall(e, msgs) /\ s.enabled /\ hasTags(Tags(e.arg))

\* The tags of the history message consulted for backfill, if there is one.
BackTags(msgs, messageIndex) ==
    IF BackfillSource(msgs, messageIndex) = 0 THEN NoTags
    ELSE Tags(msgs[BackfillSource(msgs, messageIndex)].text)

\* The text of header h between the label and the end of its line.
HeaderHas(h, label) == \E i \in 1..Len(h) : h[i] = label

LineOf(rest) ==
    IF indexOf(rest, "\n") = -1 THEN rest ELSE Slice(rest, 0, indexOf(rest, "\n"))

HeaderField(h, label) ==
    LineOf(SubSeq(h, (CHOOSE i \in 1..Len(h) : h[i] = label) + 1, Len(h)))

\* The message's own tag if present, else the backfill message's.
FirstTag(own, back) == IF own # Null THEN own ELSE back

\* What the header shows for tag t (Null: neither message carries it) when
\* the settings held setting before the event.
ShownScalar(t, setting) ==
    IF t # Null THEN (IF t # <<>> THEN t ELSE Placeholder.Unknown)
    ELSE IF setting # <<>> THEN setting ELSE Placeholder.Unknown

C1_HeaderOk(h, own, back, s) ==
    /\ HeaderField(h, Label.Time) =
           convertTo12Hour(ShownScalar(FirstTag(own.time, back.time), s.currentTime))
    /\ HeaderField(h, Label.Location) =
           ShownScalar(FirstTag(own.location, back.location), s.currentLocation)
    /\ HeaderField(h, Label.Weather) =
           ShownScalar(FirstTag(own.weather, back.weather), s.currentWeather)

\* C1 (amended): when processAiMessage processes a tagged message with the
\* extension enabled, each of time, location and weather shown in the
\* message's header comes from the message's own tag if present, else from
\* the same tag of the backfill message; a tag whose value is empty shows
\* "Unknown"; with no tag in either, the settings value held before the event
\* is shown if non-empty, else "Unknown"; and the time is shown in 12-hour
\* form.
C1_HeaderChain ==
    [][Processed(last', recentMessages', settings)
         => C1_HeaderOk(headers'[last'.index], Tags(last'.arg),
                        BackTags(recentMessages', last'.index), settings)]_vars

\* C1: a message without a time tag shows the backfill message's time and,
\* having no weather tag in either message, "Unknown".
C1_Witness ==
    /\ Processed(last, recentMessages, settings)
    /\ Tags(last.arg).time = Null
    /\ BackTags(recentMessages, last.index).time # Null
    /\ HeaderField(headers[last.index], Label.Time) =
           convertTo12Hour(BackTags(recentMessages, last.index).time)
    /\ HeaderField(headers[last.index], Label.Weather) = Placeholder.Unknown

LiteralScalar(own, back, setting) ==
    IF own # Null THEN own
    ELSE IF back # Null THEN back
    ELSE IF setting # <<>> THEN setting ELSE Placeholder.Unknown

C1_LiteralOk(h, own, back, s) ==
    /\ HeaderField(h, Label.Time) = LiteralScalar(own.time, back.time, s.currentTime)
    /\ HeaderField(h, Label.Location) =
           LiteralScalar(own.location, back.location, s.currentLocation)
    /\ HeaderField(h, Label.Weather) =
           LiteralScalar(own.weather, back.weather, s.currentWeather)

\* C1 as claimed: the header shows the tag itself (own, else backfill), else
\* the settings value if non-empty, else "Unknown".
C1_AsClaimed ==
    [][Processed(last', recentMessages', settings)
         => C1_LiteralOk(headers'[last'.index], Tags(last'.arg),
                         BackTags(recentMessages', last'.index), settings)]_vars

\* The position in msgs of the nearest AI message that precedes the message
\* with index messageIndex; 0 when there is none.
PrecedingSource(msgs, messageIndex) ==
    LastOf({i \in 1..Len(msgs) : ~msgs[i].isUser /\ msgs[i].index < messageIndex})

\* The header of a message with the tags resolved against position src.
HeaderFrom(s, tags) == buildHeader(tags, ApplyTags(s, tags))

\* C2: whenever processAiMessage backfills the message with index m, on
\* arrival or on edit, the fields come from the nearest AI message preceding
\* m, never from a message after m: the header is the one resolved against
\* the preceding message.
C2_BackfillPrecedes ==
    [][Processed(last', recentMessages', settings)
         => headers'[last'.index] =
                HeaderFrom(settings,
                           ResolveFill(Tags(last'.arg), recentMessages',
                                       PrecedingSource(recentMessages', last'.index)))]_vars

\* The heart tag parses to an integer.
HeartParses(heartTag) == heartTag # Null /\ ~isNaN(parseInt(heartTag))

C3_HeartOk(own, back, old, new) ==
    IF HeartParses(FirstTag(own.heart, back.heart))
    THEN new = Max(0, parseInt(FirstTag(own.heart, back.heart)).val)
    ELSE new = old

\* C3: processing an AI message sets settings.heartPoints to max(0, n) when
\* the message's heart tag (the backfill message's if it has none) parses to
\* n, and leaves it as it was otherwise.
C3_HeartPoints ==
    [][ProcessCall(last', recentMessages')
         => IF Processed(last', recentMessages', settings)
            THEN C3_HeartOk(Tags(last'.arg), BackTags(recentMessages', last'.index),
                            settings.heartPoints, settings'.heartPoints)
            ELSE settings'.heartPoints = settings.heartPoints]_vars

\* C3: "[heart: -50]" arrived after a message that had stored 80000, and 0
\* is stored.
C3_Witness ==
    /\ Processed(last, recentMessages, settings)
    /\ Tags(last.arg).heart = <<"-", "5", "0">>
    /\ settings.heartPoints = 0
    /\ \E i \in DOMAIN perMessageTracker : perMessageTracker[i].heartPoints = 80000

\* C4: in every reachable state settings.heartPoints and the heartPoints of
\* every cache entry are integers >= 0.
C4_HeartNonNegative ==
    /\ settings.heartPoints \in Nat
    /\ \A i \in DOMAIN perMessageTracker : perMessageTracker[i].heartPoints \in Nat

\* C4: an Edit dialog answered with heart "-5" has stored 0 for the message.
C4_Witness ==
    /\ last.ev = "edit_done"
    /\ last.arg.heart = Typed.Neg
    /\ perMessageTracker[last.index].heartPoints = 0

Names(chars) == join([n \in 1..Len(chars) |-> chars[n].name], <<",", " ">>)

\* Header h shows the list chars (no Characters block for an empty list).
ShowsChars(h, chars) ==
    IF Len(chars) = 0 THEN ~HeaderHas(h, Label.Characters)
    ELSE HeaderHas(h, Label.Characters) /\ HeaderField(h, Label.Characters) = Names(chars)

C5_ListOk(expected, h, entry, s) ==
    /\ s.currentCharacters = expected
    /\ entry.currentCharacters = expected
    /\ ShowsChars(h, expected)

\* C5 (amended): processAiMessage resolves the character list as a whole:
\* the message's own entries when it has at least one; else the backfill
\* message's full list when that message has one; else the list the settings
\* held before the event.  Header, cache entry and settings all get that list.
C5_WholeList ==
    [][Processed(last', recentMessages', settings)
         => C5_ListOk(IF Len(Tags(last'.arg).characters) > 0
                      THEN Tags(last'.arg).characters
                      ELSE IF Len(BackTags(recentMessages', last'.index).characters) > 0
                      THEN BackTags(recentMessages', last'.index).characters
                      ELSE settings.currentCharacters,
                      headers'[last'.index], perMessageTracker'[last'.index],
                      settings')]_vars

\* C5: "[char: Carol]" arrived after a message listing Alice and Bob, and the
\* list is Carol alone.
C5_Witness ==
    /\ Processed(last, recentMessages, settings)
    /\ Len(Tags(last.arg).characters) = 1
    /\ Len(BackTags(recentMessages, last.index).characters) = 2
    /\ settings.currentCharacters = Tags(last.arg).characters
    /\ HeaderField(headers[last.index], Label.Characters) = <<"C", "a", "r", "o", "l">>

\* C5 as claimed: without an entry of its own the message gets the backfill
\* message's list, whatever that is.
C5_AsClaimed ==
    [][Processed(last', recentMessages', settings)
         => C5_ListOk(IF Len(Tags(last'.arg).characters) > 0
                      THEN Tags(last'.arg).characters
                      ELSE BackTags(recentMessages', last'.index).characters,
                      headers'[last'.index], perMessageTracker'[last'.index],
                      settings')]_vars

\* The indices of the messages the rescan reads.
RescanIndices(msgs) == {LastTwoAi(msgs)[n].index : n \in 1..Len(LastTwoAi(msgs))}

\* Cache entry entry holds what the tags of its own message say.
OwnTagsIn(entry, own) ==
    /\ own.time # Null => entry.currentTime = convertTo12Hour(own.time)
    /\ own.location # Null => entry.currentLocation = own.location
    /\ own.weather # Null => entry.currentWeather = own.weather
    /\ HeartParses(own.heart) => entry.heartPoints = Max(0, parseInt(own.heart).val)
    /\ Len(own.characters) > 0 => entry.currentCharacters = own.characters

\* C6: after MESSAGE_DELETED the cache is empty; after CHAT_CHANGED and
\* CHARACTER_CHANGED the cache holds only entries rebuilt by the rescan, for
\* (at most two) tagged messages among the last two AI messages.
C6_CacheCleared ==
    /\ last.ev = "deleted" => perMessageTracker = EmptyMap
    /\ last.ev \in {"chat", "character"} =>
         /\ DOMAIN perMessageTracker \subseteq RescanIndices(recentMessages)
         /\ Cardinality(DOMAIN perMessageTracker) <= 2
         /\ \A i \in DOMAIN perMessageTracker :
                /\ hasTags(Tags(recentMessages[i + 1].text))
                /\ OwnTagsIn(perMessageTracker[i], Tags(recentMessages[i + 1].text))

\* C6: the chat changed to one of three AI messages and the cache holds the
\* entries of the last two only.
C6_Witness ==
    /\ last.ev = "chat"
    /\ steps > 1
    /\ Len(recentMessages) = 3
    /\ DOMAIN perMessageTracker = {1, 2}

\* C7: between two events the persisted copy of the settings equals the
\* settings in memory.
C7_Persisted == persisted = settings

\* C7: the character changed, its heart default was taken and saved.
C7_Witness ==
    /\ last.ev = "character"
    /\ settings.heartPoints = 500
    /\ persisted.heartPoints = 500

\* C8: with enabled = true, after init and after every handler and
\* completion the injected prompt is the one built from the settings: its
\* current-state block lists the settings' time, location, weather ("unknown"
\* when empty), heart points and characters.
C8_PromptMirrors ==
    settings.enabled =>
        prompt = <<PromptText.head>> \o CurrentState(settings) \o <<PromptText.tail>>

\* C8: an Edit dialog changed the characters of the last AI message, and the
\* prompt lists them.
C8_Witness ==
    /\ settings.enabled
    /\ last.ev = "edit_done"
    /\ last.arg.characters = Typed.Carol
    /\ Len(settings.currentCharacters) = 1
    /\ settings.currentCharacters[1].state = <<"c", "a", "l", "m">>

\* C9: processAiMessage on a text without tracker data changes nothing: no
\* header is set, and settings, saved settings, cache and prompt stay.
C9_NoTagsNoChange ==
    [][ProcessCall(last', recentMessages') /\ ~hasTags(Tags(last'.arg))
         => UNCHANGED <<settings, persisted, perMessageTracker, prompt, headers>>]_vars

\* C9: "Hi" arrived as an AI message while the cache held entries, and got
\* no header.
C9_Witness ==
    /\ last.ev = "received"
    /\ last.arg = Text.Hi
    /\ ~recentMessages[last.index + 1].isUser
    /\ settings.enabled
    /\ perMessageTracker # EmptyMap
    /\ last.index \notin DOMAIN headers

\* Event e is MESSAGE_RECEIVED or MESSAGE_EDITED for an AI message.
AiEvent(e, msgs) == e.ev \in {"received", "edited"} /\ ~msgs[e.index + 1].isUser

\* Header h shows the scalars of cache entry entry.
ShowsEntry(h, entry) ==
    /\ HeaderField(h, Label.Time) = convertTo12Hour(OrElse(entry.currentTime, Placeholder.Unknown))
    /\ HeaderField(h, Label.Location) = OrElse(entry.currentLocation, Placeholder.Unknown)
    /\ HeaderField(h, Label.Weather) = OrElse(entry.currentWeather, Placeholder.Unknown)

C10_EntryOk(idx, own, cache, hs) ==
    /\ idx \in DOMAIN cache
    /\ idx \in DOMAIN hs
    /\ OwnTagsIn(cache[idx], own)
    /\ ShowsEntry(hs[idx], cache[idx])

UserEvent(e, msgs) == e.ev \in {"received", "edited"} /\ msgs[e.index + 1].isUser

\* C11: an arrival or edit event whose payload has isUser = true never
\* changes the settings, the cache or the injected prompt; an arrival leaves
\* the headers alone and an edit only clears the header of that message.
C11_UserEventsInert ==
    [][UserEvent(last', recentMessages')
         => /\ UNCHANGED <<settings, persisted, perMessageTracker, prompt>>
            /\ headers' = IF last'.ev = "edited"
                          THEN [x \in DOMAIN headers \ {last'.index} |-> headers[x]]
                          ELSE headers]_vars

\* Event e is an Edit submission or a Regenerate completion that is carried
\* out: the dialog was not dismissed, the response has tags.
Completed(e) ==
    \/ e.ev = "edit_done" /\ e.arg # ResultNull
    \/ e.ev = "regen_done" /\ e.arg # <<>> /\ hasTags(Tags(e.arg))

\* Map after differs from map before at most at key idx, which it holds.
OnlyAt(after, before, idx) ==
    /\ DOMAIN after = DOMAIN before \cup {idx}
    /\ \A x \in DOMAIN before \ {idx} : after[x] = before[x]

\* C12: an Edit submission or a Regenerate completion for message m writes
\* m's cache entry and header and nothing of another message; it assigns the
\* stored snapshot to the settings, saves them and re-injects the prompt if
\* m is the index of the last AI message of the history at that time, and
\* otherwise leaves settings, saved settings and prompt as they were.
C12_LastOnly ==
    [][Completed(last')
         => /\ OnlyAt(perMessageTracker', perMessageTracker, last'.index)
            /\ OnlyAt(headers', headers, last'.index)
            /\ IF last'.index = LastAiIndex(recentMessages')
               THEN /\ settings' = SnapshotSettings(settings,
                                                    perMessageTracker'[last'.index])
                    /\ persisted' = settings'
                    /\ prompt' = injectPrompt(settings')
               ELSE UNCHANGED <<settings, persisted, prompt>>]_vars

\* C12: a Regenerate completion for a message that is not the last AI
\* message stored an entry that differs from the settings, and another one
\* for the last AI message changed the settings.
C12_Witness ==
    /\ Completed(last)
    /\ last.ev = "regen_done"
    /\ last.index # LastAiIndex(recentMessages)
    /\ last.index \in DOMAIN perMessageTracker
    /\ perMessageTracker[last.index] # Snapshot(settings)

\* tags hold a usable tag: a scalar tag, a heart tag that parses as a
\* number, or a character entry with a name.
Usable(tags) ==
    \/ tags.time # Null \/ tags.location # Null \/ tags.weather # Null
    \/ HeartParses(tags.heart)
    \/ Len(tags.characters) > 0

\* C13: a Regenerate completion whose response is empty or holds no usable
\* tag (a heart tag that does not parse as a number counting as absent)
\* leaves cache, headers, settings, saved settings and prompt as they were.
C13_NoUsableNoChange ==
    [][last'.ev = "regen_done" /\ ~Usable(Tags(last'.arg))
         => UNCHANGED <<settings, persisted, perMessageTracker, headers, prompt>>]_vars

\* Every field of entry that tags do not supply is the one of settings s
\* ("Unknown" for an empty scalar).
UnsuppliedFrom(entry, tags, s) ==
    /\ tags.time = Null => entry.currentTime = OrElse(s.currentTime, Placeholder.Unknown)
    /\ tags.location = Null =>
           entry.currentLocation = OrElse(s.currentLocation, Placeholder.Unknown)
    /\ tags.weather = Null =>
           entry.currentWeather = OrElse(s.currentWeather, Placeholder.Unknown)
    /\ ~HeartParses(tags.heart) => entry.heartPoints = s.heartPoints
    /\ Len(tags.characters) = 0 => entry.currentCharacters = s.currentCharacters

\* C14: a Regenerate completion resolves every field its response does not
\* supply from the settings as they are when the response arrives, whatever
\* was handled since the request, and never from the values the settings held
\* when the request was issued.
C14_ResolvedAtCompletion ==
    [][last'.ev = "regen_done" /\ Completed(last')
         => UnsuppliedFrom(perMessageTracker'[last'.index], Tags(last'.arg),
                           settings)]_vars

\* C14: the location changed between a Regenerate request and its response,
\* which has no location tag, and the entry holds the later location.
C14_Witness ==
    /\ last.ev = "regen_done"
    /\ Completed(last)
    /\ Tags(last.arg).location = Null
    /\ perMessageTracker[last.index].currentLocation \notin
           {last.asked.currentLocation, Placeholder.Unknown}

\* C15: every snapshot in the per-message cache is fully resolved: its time,
\* location and weather are non-empty strings ("Unknown" where no tag,
\* history message or setting supplies a value).
C15_SnapshotsConcrete ==
    \A i \in DOMAIN perMessageTracker :
        /\ perMessageTracker[i].currentTime # <<>>
        /\ perMessageTracker[i].currentLocation # <<>>
        /\ perMessageTracker[i].currentWeather # <<>>

\* String v is one of the two placeholder texts.
IsPlaceholder(v) == v \in {Placeholder.Unknown, Placeholder.unknown}

\* C16: the placeholder is never stored as data: in every reachable state
\* neither the settings nor their saved copy hold "Unknown" (or "unknown") as
\* time, location or weather, so an unsupplied field is "Unknown" in headers
\* and "unknown" in the prompt's current-state block.
C16_NoPlaceholderStored ==
    /\ ~IsPlaceholder(persisted.currentTime)
    /\ ~IsPlaceholder(persisted.currentLocation)
    /\ ~IsPlaceholder(persisted.currentWeather)
    /\ settings.enabled =>
           \A i \in 1..(Len(prompt) - 6) : SubSeq(prompt, i, i + 6) # Placeholder.Unknown

FormOf(snap) ==
    [time       |-> snap.currentTime,
     location   |-> snap.currentLocation,
     weather    |-> snap.currentWeather,
     heart      |-> IntToStr(snap.heartPoints),
     characters |-> charsToString(snap.currentCharacters)]

\* C18: whenever Edit is invoked for message m, the cache holds a snapshot
\* of m and every field of the form the dialog opens with is the value of
\* that snapshot.
C18_FormFromSnapshot ==
    [][last'.ev = "click_edit"
         => \A p \in pending' \ pending :
                /\ p.idx \in DOMAIN perMessageTracker
                /\ p.form = FormOf(perMessageTracker[p.idx])]_vars

\* The settings of an extension that starts on chat with no stored settings.
FreshSettings(chat, c) == init(EmptyMap, chat, c).settings

\* Every tracker field of s is the default or what the scan of chat yields.
FromChatOrDefault(s, chat, c) ==
    \A f \in DOMAIN Snapshot(s) :
        s[f] \in {DEFAULT_SETTINGS[f], FreshSettings(chat, c)[f]}

\* C19: after CHAT_CHANGED every tracker field of the settings is a default
\* or a value of the newly active chat, and the injected prompt is built
\* from these settings.
C19_NothingLeftOver ==
    [][last'.ev = "chat"
         => /\ FromChatOrDefault(settings', recentMessages', character')
            /\ prompt' = injectPrompt(settings')]_vars

\* Map after has no entry that map before lacks or holds with another value.
NothingSet(before, after) ==
    \A i \in DOMAIN after : i \in DOMAIN before /\ after[i] = before[i]

\* C20: while settings.enabled is false no step sets a message header, sets
\* an entry of the per-message cache or changes a tracker field of the
\* settings, and a prompt that is installed is the empty prompt.
C20_DisabledIsInert ==
    [][~settings.enabled
         => /\ NothingSet(headers, headers')
            /\ NothingSet(perMessageTracker, perMessageTracker')
            /\ Snapshot(settings') = Snapshot(settings)
            /\ prompt' \in {prompt, <<>>}]_vars

\* The heart points the rescan of msgs (oldest first) leaves when it starts
\* from hp: each heart tag that parses replaces them.
RECURSIVE HeartAfter(_, _)
HeartAfter(hp, msgs) ==
    IF msgs = <<>> THEN hp
    ELSE HeartAfter(IF HeartParses(Tags(Head(msgs).text).heart)
                    THEN Max(0, parseInt(Tags(Head(msgs).text).heart).val)
                    ELSE hp,
                    Tail(msgs))

\* The points the handler starts the rescan with: the character's default n
\* when none are stored, else the stored ones.
InitialHeart(stored, n) == IF stored = 0 /\ n > 0 THEN n ELSE stored

\* C21: on a restart and on CHARACTER_CHANGED the character's heart default
\* becomes settings.heartPoints only if the stored points are 0 and the
\* default is positive; stored points that are not 0 are kept, and only a
\* heart tag of the rescanned messages replaces them.
C21_DefaultOnlyInitial ==
    [][last'.ev \in {"reload", "character"}
         => settings'.heartPoints =
                HeartAfter(InitialHeart(persisted.heartPoints,
                                        getCharacterHeartDefault(character')),
                           LastTwoAi(recentMessages'))]_vars

\* C21: the character with [heart_default: 500] was selected while 80000
\* points were stored and the chat had no message, and the points stayed.
C21_Witness ==
    /\ last.ev = "character"
    /\ getCharacterHeartDefault(character) = 500
    /\ recentMessages = <<>>
    /\ settings.heartPoints = 80000

\* C22: between GENERATION_STARTED and the next GENERATION_STOPPED the
\* registered buttons are the Stop set, and while no generation is in
\* progress they are the default set.
C22_ButtonsFollowGeneration ==
    buttons = IF generating THEN STOP_BUTTONS ELSE DEFAULT_BUTTONS

\* The lines of a header ('' has none).
LinesOf(header) == IF header = <<>> THEN <<>> ELSE split(header, "\n")

\* The first tokens of the lines of the enabled fields, in the fixed order.
FieldLabels(s) ==
    (IF s.showTime THEN <<Label.Time>> ELSE <<>>)
      \o (IF s.showLocation THEN <<Label.Location>> ELSE <<>>)
      \o (IF s.showWeather THEN <<Label.Weather>> ELSE <<>>)
      \o (IF s.showHeartMeter THEN <<"Heart Meter: ">> ELSE <<>>)

\* lines, from position k + 1 on, are the characters block of chars: an
\* empty line, the line of all names, and one line per character that
\* starts with its name.
IsCharacterBlock(lines, k, chars) ==
    /\ Len(lines) = k + 2 + Len(chars)
    /\ lines[k + 1] = <<>>
    /\ lines[k + 2] = <<Label.Characters>>
                        \o join([n \in 1..Len(chars) |-> chars[n].name], <<",", " ">>)
    /\ \A n \in 1..Len(chars) :
           SubSeq(lines[k + 2 + n], 1, Len(chars[n].name)) = chars[n].name

HeaderShape(lines, labels, withBlock, chars) ==
    /\ \A i \in 1..Len(labels) : Len(lines) >= i /\ lines[i] # <<>> /\ lines[i][1] = labels[i]
    /\ IF withBlock THEN IsCharacterBlock(lines, Len(labels), chars)
       ELSE Len(lines) = Len(labels)

TierOf(emoji) ==
    CASE emoji = "black" -> 1 [] emoji = "purple" -> 2 [] emoji = "blue" -> 3
      [] emoji = "green" -> 4 [] emoji = "yellow" -> 5 [] emoji = "orange" -> 6
      [] emoji = "red" -> 7

\* The tier the thresholds give to points.
TierAt(points) ==
    1 + Cardinality({t \in {5000, 20000, 30000, 40000, 50000, 60000} : points >= t})

\* C24: getHeartEmoji gives tier 1 below 5,000 (negative points included),
\* tier 2 from 5,000, 3 from 20,000, 4 from 30,000, 5 from 40,000, 6 from
\* 50,000 and tier 7 from 60,000 on without upper bound, and more points
\* never give a lower tier.
C24_Tiers ==
    last.ev = "emoji" =>
        /\ TierOf(last.arg.emoji) = TierAt(last.arg.points)
        /\ last.arg.other <= last.arg.points
             => TierOf(last.arg.otherEmoji) <= TierOf(last.arg.emoji)

\* C24: the emoji of 60,000 points and of 59,999 points.
C24_Witness ==
    /\ last.ev = "emoji"
    /\ last.arg.points = 60000 /\ last.arg.emoji = "red"
    /\ last.arg.other = 59999 /\ last.arg.otherEmoji = "orange"

\* The hour of the 12-hour clock for hour h of the 24-hour clock.
Hour12(h) == IF h = 0 THEN 12 ELSE IF h <= 12 THEN h ELSE h - 12

\* C25: convertTo12Hour on H:MM or H:MM:SS with hour 0 to 23, followed or
\* not by a suffix that starts with ';', returns the hour of the 12-hour
\* clock (12 for hour 0 and hour 12), the minutes as they are, AM below
\* hour 12 and PM from hour 12 on, no seconds, and the suffix as it is.
C25_TwelveHourForm ==
    last.ev = "time" /\ last.arg.hours <= 23 =>
        last.arg.result =
            NatToStr(Hour12(last.arg.hours)) \o <<":">> \o last.arg.minutes \o <<" ">>
              \o (IF last.arg.hours < 12 THEN <<"A", "M">> ELSE <<"P", "M">>)
              \o last.arg.suffix

\* C25: "12:59:30; Mon" was converted to "12:59 PM; Mon".
C25_Witness ==
    /\ last.ev = "time"
    /\ last.arg.timeStr = <<"1", "2", ":", "5", "9", ":", "3", "0", ";", " ", "M", "o", "n">>
    /\ last.arg.result = <<"1", "2", ":", "5", "9", " ", "P", "M", ";", " ", "M", "o", "n">>

\* C26: convertTo12Hour applied to its own result returns that result, and
\* a string that holds AM or PM in any case, that is not of the shape
\* H:MM[:SS][; suffix], or whose hour is above 23, is returned as it is.
C26_IdempotentFailOpen ==
    /\ last.ev \in {"time", "timeText"} => last.arg.again = last.arg.result
    /\ last.ev = "timeText" => last.arg.result = last.arg.timeStr
    /\ last.ev = "time" /\ last.arg.hours > 23 => last.arg.result = last.arg.timeStr

\* C26: "25:00" came back as it is.
C26_Witness ==
    /\ last.ev = "time"
    /\ last.arg.timeStr = <<"2", "5", ":", "0", "0">>
    /\ last.arg.result = <<"2", "5", ":", "0", "0">>
    /\ last.arg.again = last.arg.result

\* The scalar field k of the tags parsed from the text of call: the value
\* of the tag for k when the text has one, "zz" when k is the second key,
\* and null otherwise.
ScalarExpected(call, k, tagged) ==
    IF tagged /\ k = call.key THEN call.value
    ELSE IF k = call.other /\ call.shape # "unclosed" THEN <<"z", "z">>
    ELSE Null

\* C27: each scalar field is extracted on its own and whatever the case of
\* the key: for a tag "[key:body]" whose body has at least one character
\* (blanks count) the field is the trimmed body of the first occurrence of
\* the key, and a later occurrence is ignored; without such a tag for the
\* key the field is null.
C27_ScalarTags ==
    last.ev = "tags" =>
        \A k \in {"time", "location", "weather", "heart"} :
            last.arg.tags[k] =
                ScalarExpected(last.arg, k, last.arg.shape = "tag" /\ last.arg.body # <<>>)

\* C27: "[HEART:  a b ][heart: zz]" gave heart "a b".
C27_Witness ==
    /\ last.ev = "tags"
    /\ last.arg.text = <<"[", "H", "E", "A", "R", "T", ":", " ", " ", "a", " ", "b", " ", "]",
                         "[", "h", "e", "a", "r", "t", ":", " ", "z", "z", "]">>
    /\ last.arg.tags.heart = <<"a", " ", "b">>
    /\ last.arg.tags.time = Null

\* C27 as claimed: every tag "[key:body]" closed by ']' gives the trimmed
\* body of the first occurrence, an empty body included.
C27_AsClaimed ==
    last.ev = "tags" =>
        \A k \in {"time", "location", "weather", "heart"} :
            last.arg.tags[k] = ScalarExpected(last.arg, k, last.arg.shape = "tag")

\* The character object after segment number i (from 1) of its tag.
SegmentApplied(c, seg, i) ==
    IF seg.kind \in {"name", "outfit", "state", "position"}
    THEN [c EXCEPT ![seg.kind] = seg.value]
    ELSE IF i = 1 /\ c.name = <<>> THEN [c EXCEPT !.name = seg.text]
    ELSE c

RECURSIVE SegmentsApplied(_, _, _)
SegmentsApplied(c, segs, i) ==
    IF i > Len(segs) THEN c
    ELSE SegmentsApplied(SegmentApplied(c, segs[i], i), segs, i + 1)

\* The entries with a name, in the order of the tags.
NamedEntries(entries) ==
    SelectSeq([n \in 1..Len(entries) |-> SegmentsApplied(EmptyChar, entries[n], 1)],
              LAMBDA c : c.name # <<>>)

\* C28: the characters are those of the [char: ...] tags in text order; in
\* a tag a segment with key name, outfit, state or position (any case) sets
\* that field, another segment is ignored unless it is the first one, which
\* then becomes the name as a whole, and an entry without a name is dropped.
C28_CharEntries ==
    last.ev = "chars" => last.arg.tags.characters = NamedEntries(last.arg.entries)

\* C28: "[char: mood: x|name: Zed] [char: outfit: x]" gave the one
\* character Zed.
C28_Witness ==
    /\ last.ev = "chars"
    /\ Len(last.arg.entries) = 2
    /\ last.arg.entries[1][1].kind = "unknown"
    /\ Len(last.arg.tags.characters) = 1
    /\ last.arg.tags.characters[1].name = <<"Z", "e", "d">>

\* C29: getSettings leaves every key the stored object defines as it is
\* (false, 0 and '' included), defines every other key of the defaults with
\* its default, and a second call changes nothing.
C29_SettingsBackfill ==
    last.ev = "settings" =>
        /\ DOMAIN last.arg.once = DOMAIN last.arg.stored \cup DOMAIN DEFAULT_SETTINGS
        /\ \A key \in DOMAIN last.arg.stored : last.arg.once[key] = last.arg.stored[key]
        /\ \A key \in DOMAIN DEFAULT_SETTINGS \ DOMAIN last.arg.stored :
               last.arg.once[key] = DEFAULT_SETTINGS[key]
        /\ last.arg.twice = last.arg.once

\* C29: a stored object with enabled = false, heartPoints = 0 and
\* currentTime = '' and without showTime was read.
C29_Witness ==
    /\ last.ev = "settings"
    /\ DOMAIN last.arg.stored = {"enabled", "heartPoints", "currentTime"}
    /\ last.arg.stored.heartPoints = 0
    /\ ~last.arg.once.enabled
    /\ last.arg.once.currentTime = <<>>
    /\ last.arg.once.showTime

\* The two newest AI messages of the history (fewer when it has fewer),
\* oldest first.
TwoNewestAi(msgs) ==
    SubSeq(SelectSeq(msgs, LAMBDA m : ~m.isUser),
           Max(1, Len(SelectSeq(msgs, LAMBDA m : ~m.isUser)) - 1),
           Len(SelectSeq(msgs, LAMBDA m : ~m.isUser)))

\* The value of field f (time, location or weather) after the rescan of
\* msgs: the tag of the newest message that has it, else old.
RECURSIVE ScalarAfter(_, _, _)
ScalarAfter(old, msgs, f) ==
    IF msgs = <<>> THEN old
    ELSE IF Tags(msgs[Len(msgs)].text)[f] # Null
         THEN Tags(msgs[Len(msgs)].text)[f]
    ELSE ScalarAfter(old, SubSeq(msgs, 1, Len(msgs) - 1), f)

\* The same for the character list.
RECURSIVE CharactersAfter(_, _)
CharactersAfter(old, msgs) ==
    IF msgs = <<>> THEN old
    ELSE IF Tags(msgs[Len(msgs)].text).characters # <<>>
         THEN Tags(msgs[Len(msgs)].text).characters
    ELSE CharactersAfter(old, SubSeq(msgs, 1, Len(msgs) - 1))

\* The indices of the messages among msgs that carry at least one tag.
TaggedIndices(msgs) ==
    {msgs[n].index : n \in {k \in 1..Len(msgs) : hasTags(Tags(msgs[k].text))}}

\* The settings s1 are the settings s0 after the rescan of two, the heart
\* points apart.
RescanOf(s0, s1, two) ==
    /\ s1.currentTime =
           IF ScalarAfter(Null, two, "time") # Null
           THEN convertTo12Hour(ScalarAfter(Null, two, "time"))
           ELSE s0.currentTime
    /\ s1.currentLocation = ScalarAfter(s0.currentLocation, two, "location")
    /\ s1.currentWeather = ScalarAfter(s0.currentWeather, two, "weather")
    /\ s1.currentCharacters = CharactersAfter(s0.currentCharacters, two)

\* C30: the rescan on restart, CHAT_CHANGED and CHARACTER_CHANGED reads the
\* two newest AI messages only, oldest first: each settings field ends with
\* the value of the newest of the two that carries it and is unchanged when
\* neither does (the heart points start from the character's default when
\* the handler applied it), the cache holds entries for exactly those of
\* the two that carry a tag, and headers are set for exactly those.
C30_RescanLastTwo ==
    [][last'.ev \in {"reload", "chat", "character"}
         => /\ RescanOf(settings, settings', TwoNewestAi(recentMessages'))
            /\ settings'.heartPoints =
                   HeartAfter(IF last'.ev = "chat" THEN settings.heartPoints
                              ELSE InitialHeart(settings.heartPoints,
                                                getCharacterHeartDefault(character')),
                              TwoNewestAi(recentMessages'))
            /\ DOMAIN perMessageTracker' = TaggedIndices(TwoNewestAi(recentMessages'))
            /\ TaggedIndices(TwoNewestAi(recentMessages')) \subseteq DOMAIN headers'
            /\ \A i \in DOMAIN headers' \ TaggedIndices(TwoNewestAi(recentMessages')) :
                   i \in DOMAIN headers /\ headers'[i] = headers[i]]_vars

\* C30: the chat of three tagged AI messages was opened from an empty one:
\* headers and cache entries exist for messages 1 and 2 only, and the
\* characters of message 0 are not in the settings.
C30_Witness ==
    /\ last.ev = "chat"
    /\ Len(recentMessages) = 3
    /\ Tags(recentMessages[1].text).characters # <<>>
    /\ DOMAIN headers = {1, 2}
    /\ DOMAIN perMessageTracker = {1, 2}
    /\ settings.currentCharacters = <<>>
    /\ settings.currentWeather = Tags(recentMessages[3].text).weather

(***************************************************************************)
(* C31                                                                     *)
(***************************************************************************)
\* Tracker values no message of the model resolves.
OtherValues ==
    [currentTime |-> <<"7", ":", "0", "7", " ", "A", "M">>,
     currentLocation |-> <<"M", "o", "o", "n">>,
     currentWeather |-> <<"H", "a", "i", "l">>,
     heartPoints |-> 64000,
     currentCharacters |-> <<[EmptyChar EXCEPT !.name = <<"Z", "o", "e">>]>>]

\* The fields of the settings that message m wrote: its text carries the tag
\* and the settings hold the value of m's cache entry.
WroteField(s, entry, tags, f) ==
    /\ s[f] = entry[f]
    /\ CASE f = "currentTime" -> tags.time # Null
         [] f = "currentLocation" -> tags.location # Null
         [] f = "currentWeather" -> tags.weather # Null
         [] f = "heartPoints" -> tags.heart # Null
         [] f = "currentCharacters" -> Len(tags.characters) > 0

\* The world w had message m resolved to OtherValues: m's cache entry, m's
\* header and what m wrote into the settings differ, nothing else does.
ResolvedOtherwise(w, m, tags) ==
    [w EXCEPT
       !.perMessageTracker = Put(@, m, OtherValues),
       !.headers = Put(@, m, buildHeader(NoTags, SnapshotSettings(w.settings, OtherValues))),
       !.settings = [f \in DOMAIN w.settings |->
                        IF f \in DOMAIN OtherValues
                             /\ WroteField(w.settings, w.perMessageTracker[m], tags, f)
                        THEN OtherValues[f] ELSE w.settings[f]]]

\* The position in msgs of the nearest AI message below index m, or 0.
PreviousAi(msgs, m) ==
    LastOf({i \in 1..Len(msgs) : ~msgs[i].isUser /\ msgs[i].index < m})

\* C31: the hidden prompt of Regenerate for message m is the same in two
\* states that differ only in the tracker values resolved for m (its cache
\* entry, its header and what it wrote into the settings).
C31_PromptIgnoresMessage ==
    \A i \in 1..Len(recentMessages) :
        /\ last.ev = "click_regen"
        /\ recentMessages[i].index = last.index
        /\ last.index \in DOMAIN perMessageTracker
        => RegeneratePrompt(getPreviousTrackerHeader(
               ResolvedOtherwise(World, last.index, Tags(recentMessages[i].text)),
               recentMessages, PreviousAi(recentMessages, last.index))) = last.arg

(***************************************************************************)
(* C32                                                                     *)
(***************************************************************************)
\* C32: in part_000 every long-press on the header of message m leaves the
\* registered buttons being m's Edit, Regenerate and Hide actions.
C32_LongPressShowsActions ==
    [][last'.ev = "longpress"
         => buttons' = <<<<"edit_message_", last'.index>>,
                         <<"regenerate_message_", last'.index>>,
                         <<"hide_buttons">>>>]_vars

(***************************************************************************)
(* C33                                                                     *)
(***************************************************************************)
\* C33: whenever the last AI message of the chat has a cache entry, the
\* settings' time, location, weather, heart points and characters equal it.
C33_SettingsAreLast ==
    LastAiIndex(recentMessages) \in DOMAIN perMessageTracker
        => Snapshot(settings) = perMessageTracker[LastAiIndex(recentMessages)]

(***************************************************************************)
(* C34                                                                     *)
(***************************************************************************)
\* C34: a completion of the Edit dialog or of the Regenerate request never
\* leaves a cache entry whose key is not the index of a message of the chat.
C34_NoStaleEntry ==
    [][Completed(last') /\ last'.index \in DOMAIN perMessageTracker'
         => \E i \in 1..Len(recentMessages') :
                recentMessages'[i].index = last'.index]_vars

(***************************************************************************)
(* C35                                                                     *)
(***************************************************************************)
\* C35: for every message that has a cache entry, the header it shows is
\* buildHeader of empty tags over that entry's values.
C35_HeaderMatchesEntry ==
    \A k \in DOMAIN perMessageTracker :
        k \in DOMAIN headers
            => headers[k] = buildHeader(NoTags,
                                SnapshotSettings(settings, perMessageTracker[k]))

\* An Edit submission gave message k its entry and its header while another
\* message keeps the entry and the header of the scan.
C35_Witness ==
    /\ last.ev = "edit_done"
    /\ last.arg # ResultNull
    /\ last.arg.time = Typed.Time
    /\ last.index \in DOMAIN perMessageTracker \cap DOMAIN headers
    /\ \E k \in DOMAIN perMessageTracker \cap DOMAIN headers :
           k # last.index /\ perMessageTracker[k].currentTime # <<>>

(***************************************************************************)
(* C36                                                                     *)
(***************************************************************************)
\* Message idx resolved field f (its tag missing) to the value v the
\* settings held: in the settings, in its cache entry and, for the three
\* scalars, in its header.
CarriedTo(s, cache, hs, idx, f, label, v) ==
    /\ s[f] = v
    /\ idx \in DOMAIN cache /\ cache[idx][f] = v
    /\ label # "" =>
          /\ idx \in DOMAIN hs
          /\ HeaderField(hs[idx], label)
               = IF f = "currentTime"
                 THEN convertTo12Hour(OrElse(v, Placeholder.Unknown))
                 ELSE OrElse(v, Placeholder.Unknown)

\* C36: when an Edit submission on the most recent AI message is followed by
\* the arrival of an AI message that has tags, every field the new message
\* has no tag for keeps the value of the submission in the settings, in the
\* new message's cache entry and in its header.
C36_CorrectionCarried ==
    [][/\ last.ev = "edit_done" /\ Completed(last)
       /\ last.index = LastAiIndex(recentMessages)
       /\ last'.ev = "received" /\ AiEvent(last', recentMessages')
       /\ hasTags(Tags(last'.arg))
       => /\ Tags(last'.arg).time = Null
               => CarriedTo(settings', perMessageTracker', headers', last'.index,
                            "currentTime", Label.Time, settings.currentTime)
          /\ Tags(last'.arg).location = Null
               => CarriedTo(settings', perMessageTracker', headers', last'.index,
                            "currentLocation", Label.Location, settings.currentLocation)
          /\ Tags(last'.arg).weather = Null
               => CarriedTo(settings', perMessageTracker', headers', last'.index,
                            "currentWeather", Label.Weather, settings.currentWeather)
          /\ Tags(last'.arg).heart = Null
               => CarriedTo(settings', perMessageTracker', headers', last'.index,
                            "heartPoints", "", settings.heartPoints)
          /\ Len(Tags(last'.arg).characters) = 0
               => CarriedTo(settings', perMessageTracker', headers', last'.index,
                            "currentCharacters", "", settings.currentCharacters)]_vars

(***************************************************************************)
(* C37                                                                     *)
(***************************************************************************)
\* C37: no MESSAGE_RECEIVED or MESSAGE_EDITED event replaces a non-empty
\* time, location or weather of the settings by the empty string.
C37_NeverErased ==
    [][last'.ev \in {"received", "edited"}
         => /\ settings.currentTime # <<>> => settings'.currentTime # <<>>
            /\ settings.currentLocation # <<>> => settings'.currentLocation # <<>>
            /\ settings.currentWeather # <<>> => settings'.currentWeather # <<>>
            /\ persisted.currentTime # <<>> => persisted'.currentTime # <<>>
            /\ persisted.currentLocation # <<>> => persisted'.currentLocation # <<>>
            /\ persisted.currentWeather # <<>> => persisted'.currentWeather # <<>>]_vars

(***************************************************************************)
(* C38                                                                     *)
(***************************************************************************)
\* C38: the time of the settings and of every cache entry is a fixed point
\* of convertTo12Hour.
C38_TimeNormalized ==
    /\ convertTo12Hour(settings.currentTime) = settings.currentTime
    /\ \A k \in DOMAIN perMessageTracker :
           convertTo12Hour(perMessageTracker[k].currentTime)
               = perMessageTracker[k].currentTime


\* C39: the character list survives the Edit form: for every list cs that
\* parseTags produces, stringToChars(charsToString(cs)) is cs, with the
\* same entries in the same order and the same four fields.
C39_CharsRoundTrip ==
    last.ev = "chars" => last.arg.back = last.arg.tags.characters

====
